---------------------------- MODULE Spec2Model ----------------------------
(***************************************************************************)
(* Model of the telemetry pipeline of capy_discord                         *)
(* (src/capy_discord/exts/core/telemetry.py): the bounded event queue, the *)
(* periodic consumer, the shutdown drain, the pending (correlation) map    *)
(* with its stale-entry cleanup, and the failure categorisation.           *)
(*                                                                         *)
(* Every handler of the cog is synchronous between its first and its last  *)
(* statement (no await inside on_interaction, on_app_command_completion,   *)
(* log_command_failure, _process_pending_events, _drain_queue), so on the  *)
(* cooperative event loop each one is one atomic action.                   *)
(***************************************************************************)
EXTENDS Integers, Sequences, FiniteSets, TLC

VARIABLES
    pending,      \* self._pending: interaction id -> <<correlation_id, start_time>>
    queue,        \* self._queue: FIFO of TelemetryEvent
    consumer,     \* state of self._consumer_task
    now,          \* time.monotonic(), in seconds
    uuids,        \* number of uuid4() values drawn so far
    events,       \* number of TelemetryEvent objects constructed so far
    accepted,     \* history: identities of the events put_nowait accepted
    dispatchCount,\* history: per event identity, how often it was dispatched
    dispatchLog,  \* history: kind and correlation id of the events dispatched, in order
    open,         \* history: per interaction id, the entry of its begin not yet ended
    reaped,       \* history: per interaction id, its entry that a begin found stale
    superseded,   \* history: per interaction id, the open entry its latest begin found
    metrics,      \* self._metrics: the counters get_metrics() reports
    recorded,     \* history: the calls of the aggregator, in order
    last          \* what the last call logged and dispatched

vars == <<pending, queue, consumer, now, uuids, events, accepted,
          dispatchCount, dispatchLog, open, reaped, superseded, metrics,
          recorded, last>>

---------------------------------------------------------------------------
(* Bounds of the model.                                                    *)

\* Capacity of the queue in the model; stands for _QUEUE_MAX_SIZE (1000).
QUEUE_MAX_SIZE == 2

\* Interaction ids are 1..MaxInteractionId.
MaxInteractionId == 2

\* At most this many objects (correlation ids drawn and TelemetryEvents
\* constructed, together) are made in a run.
MaxObjects == 4

\* At most this many records are handed to the aggregator in a run.
MaxRecords == 2

\* The clock advances in steps of TimeStep seconds up to MaxTime.
TimeStep == 40

MaxTime == 2 * TimeStep

(* Program constants.                                                      *)

STALE_THRESHOLD_SECONDS == 60

COMPONENT_TYPE_BUTTON == 2

COMPONENT_TYPE_SELECT == 3

---------------------------------------------------------------------------
(* Values.                                                                 *)

InteractionIds == 1..MaxInteractionId

\* Python's None, where the model needs it as a string-typed value.
None == "None"

\* uuid.uuid4().hex[:12]: the n-th value drawn; never the word "unknown".
Uuid4Hex(n) == "uuid" \o ToString(n)

\* TelemetryEvent(event_type, data); seq is the identity of the object.
TelemetryEvent(seq, event_type, data) ==
    [seq |-> seq, event_type |-> event_type, data |-> data]

\* The method resolution order of the exception classes the model draws from.
Mro(cls) ==
    CASE cls = "UserFriendlyError" -> {"UserFriendlyError", "CapyError", "Exception"}
      [] cls = "CapyError"         -> {"CapyError", "Exception"}
      [] cls = "RuntimeError"      -> {"RuntimeError", "Exception"}
      [] cls = "CheckFailure"      -> {"CheckFailure", "AppCommandError", "Exception"}
      [] cls = "CommandInvokeError" ->
             {"CommandInvokeError", "AppCommandError", "Exception"}
      [] OTHER                     -> {cls, "Exception"}

\* isinstance(error, cls), for an error given as its chain of classes:
\* error[1] is type(error), Tail(error) is error.original.
IsInstance(error, cls) == cls \in Mro(error[1])

\* The errors handed to log_command_failure: plain app-command errors, causes
\* wrapped once in a CommandInvokeError, and one wrapped twice.
Errors ==
    { <<"CheckFailure">>, <<"UserFriendlyError">>, <<"RuntimeError">>,
      <<"CommandInvokeError", "UserFriendlyError">>,
      <<"CommandInvokeError", "RuntimeError">>,
      <<"CommandInvokeError", "CapyError">>,
      <<"CommandInvokeError", "CommandInvokeError", "UserFriendlyError">> }

\* The error of the failures interleaved with the rest of the pipeline.
WrappedUserError == <<"CommandInvokeError", "UserFriendlyError">>

\* interaction.command / command, by name; None when the interaction has none.
CommandNames == {"ping"}

\* Events a direct caller of _enqueue can pass besides the well-formed ones:
\* an interaction event without the fields _log_interaction reads, and an
\* event of another kind (both as in tests/capy_discord/exts/test_telemetry.py).
ForeignEvents ==
    { [event_type |-> "interaction", data |-> [dropped |-> TRUE]],
      [event_type |-> "bogus_type", data |-> <<>>] }

\* The identities of the events of a sequence, in its order.
Ids(evs) == [k \in DOMAIN evs |-> evs[k].seq]

\* A line written to self.log: its level ("debug", "warning", or "error" for
\* log.exception), what it reports, and the argument of the message.
LogLine(level, what, detail) == <<level, what, detail>>

\* The lines of a log at one level.
AtLevel(log, level) == SelectSeq(log, LAMBDA line : line[1] = level)

\* What a call leaves to observe: the identities of the events it handed to
\* _dispatch_event, in order, the lines it logged, in order, and whether an
\* exception escaped it.
Outcome(dispatched, log, raised) ==
    [dispatched |-> dispatched, log |-> log, raised |-> raised]

Restrict(f, S) == [x \in S |-> f[x]]


---------------------------------------------------------------------------
(* CorrelationTracker: the pending map.                                    *)

\* A sweep that compares the age in milliseconds with the threshold in seconds.
cleanup_stale_entries_ms(p, t) ==
    LET stale_ids == { iid \in DOMAIN p :
                         (t - p[iid][2]) * 1000 > STALE_THRESHOLD_SECONDS }
    IN  Restrict(p, DOMAIN p \ stale_ids)

\* A sweep with the comparison turned round: it keeps what is stale.
cleanup_stale_entries_inverted(p, t) ==
    LET stale_ids == { iid \in DOMAIN p :
                         t - p[iid][2] < STALE_THRESHOLD_SECONDS }
    IN  Restrict(p, DOMAIN p \ stale_ids)

\* A sweep that removes nothing.
cleanup_stale_entries_noop(p, t) == p

\* Telemetry._cleanup_stale_entries: drop the entries older than the threshold.
cleanup_stale_entries(p, t) ==
    LET stale_ids == { iid \in DOMAIN p : t - p[iid][2] > STALE_THRESHOLD_SECONDS }
    IN  Restrict(p, DOMAIN p \ stale_ids)

\* A lookup whose fallback start is the epoch of the clock instead of now.
pop_pending_epoch(p, interaction_id, t) ==
    IF interaction_id \in DOMAIN p
    THEN [ret |-> p[interaction_id],
          pending |-> Restrict(p, DOMAIN p \ {interaction_id})]
    ELSE [ret |-> <<"unknown", 0>>, pending |-> p]

\* A lookup that reaps: an entry older than the threshold is removed and the
\* fallback pair returned in its place.
pop_pending_reaping(p, interaction_id, t) ==
    IF interaction_id \in DOMAIN p
    THEN [ret |-> IF t - p[interaction_id][2] > STALE_THRESHOLD_SECONDS
                  THEN <<"unknown", t>> ELSE p[interaction_id],
          pending |-> Restrict(p, DOMAIN p \ {interaction_id})]
    ELSE [ret |-> <<"unknown", t>>, pending |-> p]

\* A lookup that reads the entry and leaves it in the map (dict.get).
pop_pending_keep(p, interaction_id, t) ==
    IF interaction_id \in DOMAIN p
    THEN [ret |-> p[interaction_id], pending |-> p]
    ELSE [ret |-> <<"unknown", t>>, pending |-> p]

\* Telemetry._pop_pending: remove and return the entry, or the fallback pair.
pop_pending(p, interaction_id, t) ==
    IF interaction_id \in DOMAIN p
    THEN [ret |-> p[interaction_id],
          pending |-> Restrict(p, DOMAIN p \ {interaction_id})]
    ELSE [ret |-> <<"unknown", t>>, pending |-> p]

\* An insertion that keeps the entry already there (dict.setdefault).
set_pending_keep_first(p, interaction_id, entry) ==
    [iid \in DOMAIN p \cup {interaction_id} |->
        IF iid \in DOMAIN p THEN p[iid] ELSE entry]

\* self._pending[interaction.id] = (correlation_id, time.monotonic())
set_pending(p, interaction_id, entry) ==
    [iid \in DOMAIN p \cup {interaction_id} |->
        IF iid = interaction_id THEN entry ELSE p[iid]]

---------------------------------------------------------------------------
(* EventQueue.                                                             *)

\* An enqueue that tests for fullness one element late.
enqueue_off_by_one(q, event) ==
    IF Len(q) > QUEUE_MAX_SIZE
    THEN [queue |-> q,
          log |-> << LogLine("warning", "queue_full", event.event_type) >>]
    ELSE [queue |-> Append(q, event), log |-> <<>>]

\* An enqueue that makes room by evicting the oldest event.
enqueue_drop_oldest(q, event) ==
    IF Len(q) >= QUEUE_MAX_SIZE
    THEN [queue |-> Append(Tail(q), event),
          log |-> << LogLine("warning", "queue_full", event.event_type) >>]
    ELSE [queue |-> Append(q, event), log |-> <<>>]

\* An enqueue that puts the new event at the head of the queue.
enqueue_at_head(q, event) ==
    IF Len(q) >= QUEUE_MAX_SIZE
    THEN [queue |-> q,
          log |-> << LogLine("warning", "queue_full", event.event_type) >>]
    ELSE [queue |-> << event >> \o q, log |-> <<>>]

\* Telemetry._enqueue: put_nowait, and on QueueFull one warning and no put.
enqueue(q, event) ==
    IF Len(q) >= QUEUE_MAX_SIZE
    THEN [queue |-> q,
          log |-> << LogLine("warning", "queue_full", event.event_type) >>]
    ELSE [queue |-> Append(q, event), log |-> <<>>]

---------------------------------------------------------------------------
(* Dispatch and logging.                                                   *)

\* Telemetry._log_interaction raises KeyError when a subscripted key is absent.
log_interaction_raises(data) ==
    ~({"timestamp", "correlation_id", "interaction_type", "user_id"}
        \subseteq DOMAIN data)

\* Telemetry._log_completion(**data) raises TypeError on a missing or an
\* unexpected keyword.
log_completion_raises(data) ==
    ~(/\ {"correlation_id", "command_name", "status", "duration_ms"}
            \subseteq DOMAIN data
      /\ DOMAIN data \subseteq
            {"correlation_id", "command_name", "status", "duration_ms",
             "error_type"})

\* A dispatch that passes over an event of unknown kind in silence.
dispatch_event_silent_unknown(event) ==
    LET body_raises ==
            CASE event.event_type = "interaction" -> log_interaction_raises(event.data)
              [] event.event_type = "completion"  -> log_completion_raises(event.data)
              [] OTHER -> FALSE
        unknown == event.event_type \notin {"interaction", "completion"}
    IN  [log    |-> IF unknown
                    THEN <<>>
                    ELSE IF body_raises
                    THEN << LogLine("error", "dispatch", event.event_type) >>
                    ELSE << LogLine("debug", "telemetry", event.event_type) >>,
         raised |-> FALSE]

\* A dispatch without the try/except around the logging methods.
dispatch_event_uncaught(event) ==
    LET body_raises ==
            CASE event.event_type = "interaction" -> log_interaction_raises(event.data)
              [] event.event_type = "completion"  -> log_completion_raises(event.data)
              [] OTHER -> FALSE
        unknown == event.event_type \notin {"interaction", "completion"}
    IN  [log    |-> IF unknown
                    THEN << LogLine("warning", "unknown_type", event.event_type) >>
                    ELSE IF body_raises
                    THEN <<>>
                    ELSE << LogLine("debug", "telemetry", event.event_type) >>,
         raised |-> ~unknown /\ body_raises]

\* Telemetry._dispatch_event: route by event_type; any exception of the
\* logging method is caught and logged with log.exception.
dispatch_event(event) ==
    LET body_raises ==
            CASE event.event_type = "interaction" -> log_interaction_raises(event.data)
              [] event.event_type = "completion"  -> log_completion_raises(event.data)
              [] OTHER -> FALSE
        unknown == event.event_type \notin {"interaction", "completion"}
    IN  [log    |-> IF unknown
                    THEN << LogLine("warning", "unknown_type", event.event_type) >>
                    ELSE IF body_raises
                    THEN << LogLine("error", "dispatch", event.event_type) >>
                    ELSE << LogLine("debug", "telemetry", event.event_type) >>,
         raised |-> FALSE]

\* The loop shared by _process_pending_events and _drain_queue: get_nowait and
\* dispatch until the queue is empty or `cap` events were processed; an
\* exception escaping _dispatch_event ends the loop and propagates.
RECURSIVE dispatch_loop(_, _, _)
dispatch_loop(q, cap, acc) ==
    IF Len(acc.dispatched) >= cap \/ q = <<>>
    THEN [acc EXCEPT !.queue = q]
    ELSE LET d == dispatch_event(Head(q))
             acc1 == [acc EXCEPT !.dispatched = Append(@, Head(q)),
                                 !.log = @ \o d.log]
         IN  IF d.raised
             THEN [acc1 EXCEPT !.queue = Tail(q), !.raised = TRUE]
             ELSE dispatch_loop(Tail(q), cap, acc1)

LoopStart ==
    [queue |-> <<>>, dispatched |-> <<>>, log |-> <<>>, raised |-> FALSE]

\* A tick whose cap is one short of the capacity.
process_pending_events_short(q) == dispatch_loop(q, QUEUE_MAX_SIZE - 1, LoopStart)

\* Telemetry._process_pending_events: at most _QUEUE_MAX_SIZE events per tick.
process_pending_events(q) == dispatch_loop(q, QUEUE_MAX_SIZE, LoopStart)

\* A drain that empties the queue without dispatching what it held.
drain_queue_discard(q) ==
    IF q = <<>>
    THEN LoopStart
    ELSE [LoopStart EXCEPT
            !.log = << LogLine("warning", "drained", ToString(Len(q))) >>]

\* A drain that logs its warning whatever the count.
drain_queue_always_warns(q) ==
    LET r == dispatch_loop(q, Len(q) + 1, LoopStart)
        count == Len(r.dispatched)
    IN  IF ~r.raised
        THEN [r EXCEPT !.log = Append(@, LogLine("warning", "drained", ToString(count)))]
        ELSE r

\* Telemetry._drain_queue: every queued event, then one warning with the count
\* when the count is not zero.
drain_queue(q) ==
    LET r == dispatch_loop(q, Len(q) + 1, LoopStart)
        count == Len(r.dispatched)
    IN  IF ~r.raised /\ count # 0
        THEN [r EXCEPT !.log = Append(@, LogLine("warning", "drained", ToString(count)))]
        ELSE r

---------------------------------------------------------------------------
(* Capture layer: the three ingestion entry points.                        *)

\* A raw interaction: its id, declared type, component subtype (0 when its
\* data carries none), command name (None without a command), user and guild
\* (0 stands for guild_id None), and `sound`, which is FALSE for an
\* interaction on which the extraction raises (an attribute that
\* _extract_interaction_data reads is missing).
Interaction(id, type, component_type, command, user_id, guild_id, sound) ==
    [id |-> id, type |-> type, component_type |-> component_type,
     command |-> command, user_id |-> user_id, guild_id |-> guild_id,
     sound |-> sound]

\* The interactions delivered to on_interaction: a slash command in a guild,
\* under every id, sound or not.
RawInteractions ==
    { Interaction(i, "application_command", 0, "ping", 42, 100, s) :
        i \in InteractionIds, s \in BOOLEAN }

\* The members of discord.InteractionType that an interaction can declare.
InteractionTypes ==
    {"ping", "application_command", "component", "autocomplete", "modal_submit"}

\* The subtype codes of a component interaction: none in its data (0), a
\* button, a string select, and a select of another kind (a user select).
ComponentTypes == {0, COMPONENT_TYPE_BUTTON, COMPONENT_TYPE_SELECT, 5}

\* The interactions of every declared type and subtype, in a guild, under
\* every id, sound or not.
AnyInteractions ==
    { Interaction(i, ty, ct, "ping", 42, 100, s) :
        i \in InteractionIds, ty \in InteractionTypes \ {"component"},
        ct \in {0}, s \in BOOLEAN }
    \cup
    { Interaction(i, "component", ct, "ping", 42, 100, s) :
        i \in InteractionIds, ct \in ComponentTypes, s \in BOOLEAN }

\* A type map without the refinement of component interactions.
get_interaction_type_unrefined(interaction) ==
    CASE interaction.type = "application_command" -> "slash_command"
      [] interaction.type = "component"           -> "component"
      [] interaction.type = "modal_submit"        -> "modal"
      [] interaction.type = "autocomplete"        -> "autocomplete"
      [] OTHER                                    -> "unknown"

\* Telemetry._get_interaction_type: the type map, refined for components by
\* interaction.data["component_type"] (0 when the data carries none).
get_interaction_type(interaction) ==
    LET interaction_type ==
            CASE interaction.type = "application_command" -> "slash_command"
              [] interaction.type = "component"           -> "component"
              [] interaction.type = "modal_submit"        -> "modal"
              [] interaction.type = "autocomplete"        -> "autocomplete"
              [] OTHER                                    -> "unknown"
    IN  IF interaction_type = "component"
        THEN CASE interaction.component_type = COMPONENT_TYPE_BUTTON -> "button"
               [] interaction.component_type = COMPONENT_TYPE_SELECT -> "dropdown"
               [] OTHER -> interaction_type
        ELSE interaction_type

\* A Python value, by its class and what it holds: an int or a str with its
\* val, a Discord object with its id, a list or a dict with its items.
PyInt(n) == [cls |-> "int", val |-> n]

PyStr(text) == [cls |-> "str", val |-> text]

PyObject(cls, id) == [cls |-> cls, id |-> id]

PyList(items) == [cls |-> "list", items |-> items]

PyDict(items) == [cls |-> "dict", items |-> items]

\* The classes _serialize_value tests for with isinstance: users, channels
\* and roles.
UserClasses == {"User", "Member"}

ChannelClasses == {"TextChannel", "VoiceChannel", "Thread"}

RoleClasses == {"Role"}

\* Telemetry._serialize_value: the id of a user, a channel or a role; a list
\* or a dict with every item serialized; any other value as it is.
RECURSIVE serialize_value(_)
serialize_value(value) ==
    IF value.cls \in UserClasses THEN PyInt(value.id)
    ELSE IF value.cls \in ChannelClasses THEN PyInt(value.id)
    ELSE IF value.cls \in RoleClasses THEN PyInt(value.id)
    ELSE IF value.cls = "list"
    THEN PyList([k \in DOMAIN value.items |-> serialize_value(value.items[k])])
    ELSE IF value.cls = "dict"
    THEN PyDict([k \in DOMAIN value.items |-> serialize_value(value.items[k])])
    ELSE value

\* options[key] = value
set_option(options, key, value) ==
    [k \in DOMAIN options \cup {key} |-> IF k = key THEN value ELSE options[k]]

\* opt.get(key): None when the key is absent.
Get(opt, key) == IF key \in DOMAIN opt THEN opt[key] ELSE None

\* A flattening that names every entry by its own name, without the prefix.
RECURSIVE extract_command_options_unprefixed(_, _, _)
extract_command_options_unprefixed(option_list, options, prefix) ==
    IF option_list = <<>>
    THEN options
    ELSE LET opt == Head(option_list)
             name == Get(opt, "name")
             after ==
                 IF name = None \/ name = ""
                 THEN options
                 ELSE IF "options" \in DOMAIN opt
                 THEN extract_command_options_unprefixed(opt.options, options, name)
                 ELSE IF "value" \in DOMAIN opt
                 THEN set_option(options, name, serialize_value(opt.value))
                 ELSE options
         IN  extract_command_options_unprefixed(Tail(option_list), after, prefix)

\* Telemetry._extract_command_options: walk the option list in order; an
\* option without a name is passed over, one with a nested list is walked
\* under its dotted name, one with a value is stored under its dotted name.
\* (The "options" of a payload, when present, is a list.)
RECURSIVE extract_command_options(_, _, _)
extract_command_options(option_list, options, prefix) ==
    IF option_list = <<>>
    THEN options
    ELSE LET opt == Head(option_list)
             name == Get(opt, "name")
             full_name == IF prefix # "" THEN prefix \o "." \o name ELSE name
             after ==
                 IF name = None \/ name = ""
                 THEN options
                 ELSE IF "options" \in DOMAIN opt
                 THEN extract_command_options(opt.options, options, full_name)
                 ELSE IF "value" \in DOMAIN opt
                 THEN set_option(options, full_name, serialize_value(opt.value))
                 ELSE options
         IN  extract_command_options(Tail(option_list), after, prefix)

\* The inner loop of Telemetry._extract_modal_components: the fields of one
\* action row that have a custom_id and a value.
RECURSIVE extract_row_components(_, _)
extract_row_components(components, options) ==
    IF components = <<>>
    THEN options
    ELSE LET component == Head(components)
             field_id == Get(component, "custom_id")
             after == IF field_id # None /\ field_id # ""
                         /\ "value" \in DOMAIN component
                      THEN set_option(options, field_id, component.value)
                      ELSE options
         IN  extract_row_components(Tail(components), after)

\* Telemetry._extract_modal_components: every action row in turn.
RECURSIVE extract_modal_components(_, _)
extract_modal_components(components, options) ==
    IF components = <<>>
    THEN options
    ELSE LET action_row == Head(components)
             row == IF "components" \in DOMAIN action_row
                    THEN action_row.components ELSE <<>>
         IN  extract_modal_components(Tail(components),
                                      extract_row_components(row, options))

\* Telemetry._extract_interaction_options: the flattened options, then the
\* custom_id, the values and the modal fields of interaction.data; nothing
\* for an interaction whose data carries none of them.
extract_interaction_options(interaction) ==
    IF "data" \notin DOMAIN interaction
    THEN <<>>
    ELSE LET data == interaction.data
             o1 == IF "options" \in DOMAIN data
                   THEN extract_command_options(data.options, <<>>, "") ELSE <<>>
             o2 == IF "custom_id" \in DOMAIN data
                   THEN set_option(o1, "custom_id", data.custom_id) ELSE o1
             o3 == IF "values" \in DOMAIN data
                   THEN set_option(o2, "values", data.values) ELSE o2
         IN  IF "components" \in DOMAIN data
             THEN extract_modal_components(data.components, o3) ELSE o3

\* Telemetry._get_command_name: the name of the command, else the custom_id
\* of the data, else None.
get_command_name(interaction) ==
    IF interaction.command # None
    THEN interaction.command
    ELSE IF "data" \in DOMAIN interaction
    THEN Get(interaction.data, "custom_id")
    ELSE None

\* Telemetry._extract_interaction_data: the flat record of an interaction.
extract_interaction_data(interaction) ==
    [event_type       |-> "interaction",
     interaction_type |-> get_interaction_type(interaction),
     user_id          |-> interaction.user_id,
     username         |-> "user",
     command_name     |-> get_command_name(interaction),
     guild_id         |-> interaction.guild_id,
     guild_name       |-> IF interaction.guild_id # 0 THEN "guild" ELSE None,
     channel_id       |-> 2,
     timestamp        |-> "created_at",
     options          |-> extract_interaction_options(interaction)]

\* An interaction whose data carries a payload.
WithData(interaction, data) ==
    [k \in DOMAIN interaction \cup {"data"} |->
        IF k = "data" THEN data ELSE interaction[k]]

\* The values of the options: a user, a channel or a role object, an int, a
\* str, and lists and dicts that hold such objects, one inside the other.
ObjectValues ==
    { PyObject(cls, 7) : cls \in UserClasses \cup ChannelClasses \cup RoleClasses }

ScalarValues == { PyInt(5), PyStr("x") }

NestedValues ==
    { PyList(<< PyObject("User", 7), PyInt(5) >>),
      PyDict([k \in {"who"} |-> PyObject("Role", 7)]),
      PyList(<< PyDict([k \in {"in"} |->
                          PyList(<< PyObject("Thread", 7) >>)]) >>) }

OptionValues == ObjectValues \cup ScalarValues \cup NestedValues

\* An option with a value, and an option with a nested option list.
Leaf(name, value) == [name |-> name, value |-> value]

Node(name, option_list) == [name |-> name, options |-> option_list]

\* The option lists of the slash commands: one option, under every value; a
\* sub-command of a group with two options; a list with an option without a
\* name, a group with an empty name, a group without a name and a named
\* option; a group that carries a value of its own beside an option that
\* carries nothing; and no option at all.
OptionLists ==
    { << Leaf("target", v) >> : v \in OptionValues }
    \cup
    { << Node("group", << Node("sub", << Leaf("target", v),
                                        Leaf("reason", PyStr("x")) >>) >>) >> :
        v \in ObjectValues }
    \cup
    { << [value |-> PyInt(5)],
         [name |-> "", options |-> << Leaf("lost", PyInt(5)) >>],
         [options |-> << Leaf("lost", PyInt(5)) >>],
         Leaf("kept", PyObject("Member", 7)) >>,
      << [name |-> "sub", options |-> << Leaf("x", PyObject("Role", 7)) >>,
          value |-> PyInt(5)],
         [name |-> "flag"] >>,
      << >> }

\* The interactions that carry a payload, all under one id: the slash
\* commands with their options, a button with its custom_id, a dropdown with
\* its values and a modal with its fields.
DataInteractions ==
    { WithData(Interaction(1, "application_command", 0, "ping", 42, 100, TRUE),
               [options |-> option_list]) : option_list \in OptionLists }
    \cup
    { WithData(Interaction(1, "component", COMPONENT_TYPE_BUTTON, None, 42, 100, TRUE),
               [custom_id |-> "confirm_btn"]),
      WithData(Interaction(1, "component", COMPONENT_TYPE_SELECT, None, 42, 100, TRUE),
               [custom_id |-> "pick", values |-> << "a", "b" >>]),
      WithData(Interaction(1, "modal_submit", 0, None, 42, 100, TRUE),
               [custom_id |-> "feedback_form",
                components |->
                    << [components |-> << [custom_id |-> "title", value |-> "hi"],
                                          [custom_id |-> "body"] >>],
                       [type |-> 1] >>]) }

\* A try block that enqueues the event before it extracts the data, and so
\* leaves a partial event behind when the extraction raises.
on_interaction_try_partial(p, q, t, nuuid, nevent, interaction) ==
    LET p1 == cleanup_stale_entries(p, t)
        correlation_id == Uuid4Hex(nuuid + 1)
        p2 == set_pending(p1, interaction.id, <<correlation_id, t>>)
        event == TelemetryEvent(nevent + 1, "interaction",
                                [correlation_id |-> correlation_id])
        r == enqueue(q, event)
    IN  [pending |-> p2, queue |-> r.queue, ret |-> <<correlation_id, t>>,
         enq |-> <<event>>, log |-> r.log, raised |-> ~interaction.sound]

\* The try block of Telemetry.on_interaction.
on_interaction_try(p, q, t, nuuid, nevent, interaction) ==
    LET p1 == cleanup_stale_entries(p, t)
        correlation_id == Uuid4Hex(nuuid + 1)
        p2 == set_pending(p1, interaction.id, <<correlation_id, t>>)
    IN  IF ~interaction.sound
        THEN [pending |-> p2, queue |-> q, ret |-> <<correlation_id, t>>,
              enq |-> <<>>, log |-> <<>>, raised |-> TRUE]
        ELSE LET event_data == [k \in DOMAIN extract_interaction_data(interaction)
                                        \cup {"correlation_id"} |->
                                    IF k = "correlation_id" THEN correlation_id
                                    ELSE extract_interaction_data(interaction)[k]]
                 event == TelemetryEvent(nevent + 1, "interaction", event_data)
                 r == enqueue(q, event)
             IN  [pending |-> p2, queue |-> r.queue, ret |-> <<correlation_id, t>>,
                  enq |-> <<event>>, log |-> r.log, raised |-> FALSE]

\* on_interaction without its `except Exception`.
on_interaction_uncaught(p, q, t, nuuid, nevent, interaction) ==
    on_interaction_try(p, q, t, nuuid, nevent, interaction)

\* A begin that restores the pending map when its event is not enqueued.
on_interaction_rollback(p, q, t, nuuid, nevent, interaction) ==
    LET b == on_interaction_try(p, q, t, nuuid, nevent, interaction)
    IN  IF b.raised
        THEN [b EXCEPT !.raised = FALSE,
                       !.pending = p,
                       !.log = Append(@, LogLine("error", "capture_interaction", "Exception"))]
        ELSE IF b.queue = q
        THEN [b EXCEPT !.pending = p]
        ELSE b

\* Telemetry.on_interaction: the try block, and `except Exception` logging it.
on_interaction(p, q, t, nuuid, nevent, interaction) ==
    LET b == on_interaction_try(p, q, t, nuuid, nevent, interaction)
    IN  IF b.raised
        THEN [b EXCEPT !.raised = FALSE,
                       !.log = Append(@, LogLine("error", "capture_interaction", "Exception"))]
        ELSE b

\* The try block of Telemetry.on_app_command_completion; command is None for
\* a command object on which reading .name raises.
on_app_command_completion_try(p, q, t, nevent, interaction_id, command) ==
    LET pp == pop_pending(p, interaction_id, t)
        correlation_id == pp.ret[1]
        start_time == pp.ret[2]
        duration_ms == (t - start_time) * 1000
    IN  IF command = None
        THEN [pending |-> pp.pending, queue |-> q, ret |-> pp.ret, enq |-> <<>>,
              log |-> <<>>, raised |-> TRUE]
        ELSE LET event == TelemetryEvent(nevent + 1, "completion",
                              [correlation_id |-> correlation_id,
                               command_name   |-> command,
                               status         |-> "success",
                               duration_ms    |-> duration_ms])
                 r == enqueue(q, event)
             IN  [pending |-> pp.pending, queue |-> r.queue, ret |-> pp.ret,
                  enq |-> <<event>>, log |-> r.log, raised |-> FALSE]

\* Telemetry.on_app_command_completion.
on_app_command_completion(p, q, t, nevent, interaction_id, command) ==
    LET b == on_app_command_completion_try(p, q, t, nevent, interaction_id, command)
    IN  IF b.raised
        THEN [b EXCEPT !.raised = FALSE,
                       !.log = Append(@, LogLine("error", "capture_completion", "Exception"))]
        ELSE b

\* An unwrapping that follows .original down to the root cause.
RECURSIVE unwrap_to_root(_)
unwrap_to_root(error) ==
    IF IsInstance(error, "CommandInvokeError") /\ Len(error) > 1
    THEN unwrap_to_root(Tail(error)) ELSE error

\* error.original if isinstance(error, CommandInvokeError) else error
unwrap(error) ==
    IF IsInstance(error, "CommandInvokeError") THEN Tail(error) ELSE error

\* "user_error" if isinstance(actual_error, UserFriendlyError) else "internal_error"
categorize(actual_error) ==
    IF IsInstance(actual_error, "UserFriendlyError")
    THEN "user_error" ELSE "internal_error"

\* type(actual_error).__name__
type_name(actual_error) == actual_error[1]

\* The try block of Telemetry.log_command_failure; command is the name of
\* interaction.command, None when the interaction has no command (then the
\* name recorded is "unknown"), and `sound` is FALSE for an interaction on
\* which reading .command raises.
log_command_failure_try(p, q, t, nevent, interaction_id, command, sound, error) ==
    LET pp == pop_pending(p, interaction_id, t)
        correlation_id == pp.ret[1]
        start_time == pp.ret[2]
        duration_ms == (t - start_time) * 1000
        actual_error == unwrap(error)
        status == categorize(actual_error)
        error_type == type_name(actual_error)
    IN  IF ~sound
        THEN [pending |-> pp.pending, queue |-> q, ret |-> pp.ret, enq |-> <<>>,
              log |-> <<>>, raised |-> TRUE]
        ELSE LET event == TelemetryEvent(nevent + 1, "completion",
                              [correlation_id |-> correlation_id,
                               command_name   |-> IF command # None
                                                  THEN command ELSE "unknown",
                               status         |-> status,
                               duration_ms    |-> duration_ms,
                               error_type     |-> error_type])
                 r == enqueue(q, event)
             IN  [pending |-> pp.pending, queue |-> r.queue, ret |-> pp.ret,
                  enq |-> <<event>>, log |-> r.log, raised |-> FALSE]

\* Telemetry.log_command_failure.
log_command_failure(p, q, t, nevent, interaction_id, command, sound, error) ==
    LET b == log_command_failure_try(p, q, t, nevent, interaction_id, command,
                                     sound, error)
    IN  IF b.raised
        THEN [b EXCEPT !.raised = FALSE,
                       !.log = Append(@, LogLine("error", "capture_failure", "Exception"))]
        ELSE b

---------------------------------------------------------------------------
(* MetricsAggregator and LatencyStats: the in-memory analytics that        *)
(* get_metrics() reports.                                                  *)

\* The durations, in milliseconds, of the completion records of the model.
Durations == {10, 30}

\* float("inf"): greater than every duration.
Infinity == 1 + CHOOSE d \in Durations : \A e \in Durations : e <= d

Min(a, b) == IF a <= b THEN a ELSE b

Max(a, b) == IF a >= b THEN a ELSE b

\* CommandLatencyStats(): a fresh accumulator.
CommandLatencyStats == [count |-> 0, min_ms |-> Infinity, max_ms |-> 0, sum_ms |-> 0]

\* A record that overwrites the extremes with the latest duration.
record_latest(stats, duration_ms) ==
    [count  |-> stats.count + 1,
     min_ms |-> duration_ms,
     max_ms |-> duration_ms,
     sum_ms |-> stats.sum_ms + duration_ms]

\* CommandLatencyStats.record: count+1, min=min(min,d), max=max(max,d), sum+=d.
record(stats, duration_ms) ==
    [count  |-> stats.count + 1,
     min_ms |-> Min(stats.min_ms, duration_ms),
     max_ms |-> Max(stats.max_ms, duration_ms),
     sum_ms |-> stats.sum_ms + duration_ms]

\* CommandLatencyStats.avg_ms: sum_ms / count, 0 when count is 0; the quotient
\* is kept as the fraction <<numerator, denominator>>.
avg_ms(stats) ==
    IF stats.count = 0 THEN <<0, 1>> ELSE <<stats.sum_ms, stats.count>>

\* TelemetryMetrics(): every counter at zero, every map and set empty.
TelemetryMetrics ==
    [total_interactions    |-> 0,
     interactions_by_type  |-> <<>>,
     command_invocations   |-> <<>>,
     unique_user_ids       |-> {},
     guild_interactions    |-> <<>>,
     completions_by_status |-> <<>>,
     command_latency       |-> <<>>,
     command_failures      |-> <<>>,
     error_types           |-> <<>>]

\* defaultdict.__getitem__: the value under key, or the default when absent.
Lookup(map, key, default) == IF key \in DOMAIN map THEN map[key] ELSE default

\* map[key] = value, creating the key when absent.
Store(map, key, value) ==
    [k \in DOMAIN map \cup {key} |-> IF k = key THEN value ELSE map[k]]

\* counter[key] += 1 on a defaultdict(int).
Increment(counter, key) == Store(counter, key, Lookup(counter, key, 0) + 1)

\* An aggregation that leaves the total alone when the record has no command
\* name.
record_interaction_total_of_commands(m, data) ==
    [m EXCEPT
        !.total_interactions   = IF data.command_name # None THEN @ + 1 ELSE @,
        !.interactions_by_type = Increment(@, data.interaction_type),
        !.command_invocations  = IF data.command_name # None
                                 THEN Increment(@, data.command_name) ELSE @,
        !.unique_user_ids      = @ \cup {data.user_id},
        !.guild_interactions   = IF data.guild_id # 0
                                 THEN Increment(@, data.guild_id) ELSE @]

\* An aggregation that counts a guild for every record, DMs included.
record_interaction_any_guild(m, data) ==
    [m EXCEPT
        !.total_interactions   = @ + 1,
        !.interactions_by_type = Increment(@, data.interaction_type),
        !.command_invocations  = IF data.command_name # None
                                 THEN Increment(@, data.command_name) ELSE @,
        !.unique_user_ids      = @ \cup {data.user_id},
        !.guild_interactions   = Increment(@, data.guild_id)]

\* record_interaction: total, by type, by command when a name is present, the
\* user into the unique-user set, by guild when the guild id is not null
\* (guild_id 0 stands for None).
record_interaction(m, data) ==
    [m EXCEPT
        !.total_interactions   = @ + 1,
        !.interactions_by_type = Increment(@, data.interaction_type),
        !.command_invocations  = IF data.command_name # None
                                 THEN Increment(@, data.command_name) ELSE @,
        !.unique_user_ids      = @ \cup {data.user_id},
        !.guild_interactions   = IF data.guild_id # 0
                                 THEN Increment(@, data.guild_id) ELSE @]

\* An aggregation that counts every completion, successes included, among
\* the failures of its command.
record_completion_all_failures(m, data) ==
    [m EXCEPT
        !.completions_by_status = Increment(@, data.status),
        !.command_latency =
            IF "duration_ms" \in DOMAIN data
            THEN Store(@, data.command_name,
                       record(Lookup(@, data.command_name, CommandLatencyStats),
                              data.duration_ms))
            ELSE @,
        !.command_failures =
            Store(@, data.command_name,
                  Increment(Lookup(@, data.command_name, <<>>), data.status)),
        !.error_types =
            IF "error_type" \in DOMAIN data
            THEN Increment(@, data.error_type) ELSE @]

\* record_completion: by status; the latency of the command when duration_ms
\* is present; the failures of the command by status when the status is not
\* "success"; the error type when one is present.
record_completion(m, data) ==
    [m EXCEPT
        !.completions_by_status = Increment(@, data.status),
        !.command_latency =
            IF "duration_ms" \in DOMAIN data
            THEN Store(@, data.command_name,
                       record(Lookup(@, data.command_name, CommandLatencyStats),
                              data.duration_ms))
            ELSE @,
        !.command_failures =
            IF data.status # "success"
            THEN Store(@, data.command_name,
                       Increment(Lookup(@, data.command_name, <<>>), data.status))
            ELSE @,
        !.error_types =
            IF "error_type" \in DOMAIN data
            THEN Increment(@, data.error_type) ELSE @]

\* A snapshot that hands the counters out and starts them afresh.
get_metrics_reset(m) == [ret |-> m, metrics |-> TelemetryMetrics]

\* get_metrics / snapshot: a read-only copy of the counters, which stay as
\* they are.
get_metrics(m) == [ret |-> m, metrics |-> m]

\* The interaction records handed to record_interaction: by type, with and
\* without a command name, by two users, in a guild and in a DM.
InteractionRecords ==
    { [interaction_type |-> ty, command_name |-> c, user_id |-> u, guild_id |-> g] :
        ty \in {"slash_command", "button"}, c \in {"ping", None},
        u \in {42, 7}, g \in {100, 0} }

\* The completion records handed to record_completion: with and without a
\* duration, with and without an error type.
CompletionRecords ==
    LET base == { [command_name |-> c, status |-> st] :
                    c \in {"ping", "help"},
                    st \in {"success", "user_error", "internal_error"} }
        timed == { [command_name |-> b.command_name, status |-> b.status,
                    duration_ms |-> d] : b \in base, d \in Durations }
        typed(S) == { [k \in DOMAIN r \cup {"error_type"} |->
                         IF k = "error_type" THEN "UserFriendlyError" ELSE r[k]] :
                      r \in S }
    IN  base \cup timed \cup typed(base) \cup typed(timed)

---------------------------------------------------------------------------
(* The state machine.                                                      *)

Quiet == Outcome(<<>>, <<>>, FALSE)

Init ==
    /\ pending = <<>>
    /\ queue = <<>>
    /\ consumer = "stopped"
    /\ now = 0
    /\ uuids = 0
    /\ events = 0
    /\ accepted = {}
    /\ dispatchCount = [n \in 1..MaxObjects |-> 0]
    /\ dispatchLog = <<>>
    /\ open = [i \in InteractionIds |-> <<>>]
    /\ reaped = [i \in InteractionIds |-> <<>>]
    /\ superseded = [i \in InteractionIds |-> <<>>]
    /\ metrics = TelemetryMetrics
    /\ recorded = <<>>
    /\ last = Quiet

\* The cog receives notifications from its construction to its unload:
\* Bot.on_tree_error finds it with get_cog, and the listeners go with the cog.
Attached == consumer # "cancelled"

\* The identities of the events of enq that the queue took.
Taken(q, enq) ==
    { n \in { enq[k].seq : k \in DOMAIN enq } :
        \E k \in DOMAIN q : q[k].seq = n }

\* dispatchCount after the events of `dispatched` were handed to _dispatch_event.
Counted(c, dispatched) ==
    [n \in DOMAIN c |->
        c[n] + Cardinality({ k \in DOMAIN dispatched : dispatched[k].seq = n })]

\* The kind of an event and the correlation id it carries (None for an event
\* that carries none), for each event handed to _dispatch_event.
Logged(dispatched) ==
    [k \in DOMAIN dispatched |->
        [event_type |-> dispatched[k].event_type,
         correlation_id |->
             IF "correlation_id" \in DOMAIN dispatched[k].data
             THEN dispatched[k].data.correlation_id ELSE None]]

\* An entry older than the staleness threshold at time t.
Stale(entry, t) == t - entry[2] > STALE_THRESHOLD_SECONDS

\* begin: the framework delivers an interaction to Telemetry.on_interaction.
OnInteractionOf(interactions) ==
    \E interaction \in interactions :
        /\ Attached
        /\ uuids + events + 1 < MaxObjects
        /\ LET r == on_interaction(pending, queue, now, uuids, events, interaction)
           IN  /\ pending' = r.pending
               /\ queue' = r.queue
               /\ uuids' = uuids + 1
               /\ events' = events + Len(r.enq)
               /\ accepted' = accepted \cup Taken(r.queue, r.enq)
               /\ open' = [open EXCEPT ![interaction.id] = r.ret]
               /\ reaped' = [i \in InteractionIds |->
                               IF i \in DOMAIN pending /\ Stale(pending[i], now)
                               THEN pending[i]
                               ELSE IF i = interaction.id THEN <<>> ELSE reaped[i]]
               /\ superseded' = [superseded EXCEPT ![interaction.id] = open[interaction.id]]
               /\ last' = Outcome(<<>>, r.log, r.raised)
        /\ UNCHANGED <<consumer, now, dispatchCount, dispatchLog, metrics, recorded>>

\* A begin that aggregates its record itself, before the consumer sees it.
OnInteractionAggregating ==
    \E interaction \in RawInteractions :
        /\ Attached
        /\ uuids + events + 1 < MaxObjects
        /\ LET r == on_interaction(pending, queue, now, uuids, events, interaction)
           IN  /\ pending' = r.pending
               /\ queue' = r.queue
               /\ uuids' = uuids + 1
               /\ events' = events + Len(r.enq)
               /\ accepted' = accepted \cup Taken(r.queue, r.enq)
               /\ open' = [open EXCEPT ![interaction.id] = r.ret]
               /\ reaped' = [i \in InteractionIds |->
                               IF i \in DOMAIN pending /\ Stale(pending[i], now)
                               THEN pending[i]
                               ELSE IF i = interaction.id THEN <<>> ELSE reaped[i]]
               /\ superseded' = [superseded EXCEPT ![interaction.id] = open[interaction.id]]
               /\ metrics' = IF r.enq # <<>>
                             THEN record_interaction(metrics, r.enq[1].data)
                             ELSE metrics
               /\ last' = Outcome(<<>>, r.log, r.raised)
        /\ UNCHANGED <<consumer, now, dispatchCount, dispatchLog, recorded>>

\* A slash command in a guild.
OnInteraction == OnInteractionOf(RawInteractions)

\* An interaction of any declared type.
OnAnyInteraction == OnInteractionOf(AnyInteractions)

\* An interaction that carries a payload.
OnDataInteraction == OnInteractionOf(DataInteractions)

\* end: the framework reports a successful command.
OnAppCommandCompletion ==
    \E interaction_id \in InteractionIds, command \in CommandNames \cup {None} :
        /\ Attached
        /\ uuids + events < MaxObjects
        /\ LET r == on_app_command_completion(pending, queue, now, events,
                                              interaction_id, command)
           IN  /\ pending' = r.pending
               /\ queue' = r.queue
               /\ events' = events + Len(r.enq)
               /\ accepted' = accepted \cup Taken(r.queue, r.enq)
               /\ open' = [open EXCEPT ![interaction_id] = <<>>]
               /\ reaped' = [reaped EXCEPT ![interaction_id] = <<>>]
               /\ superseded' = [superseded EXCEPT ![interaction_id] = <<>>]
               /\ last' = Outcome(<<>>, r.log, r.raised)
        /\ UNCHANGED <<consumer, now, uuids, dispatchCount, dispatchLog, metrics, recorded>>

\* end: Bot.on_tree_error reports a failed command.
LogCommandFailureOf(errors) ==
    \E interaction_id \in InteractionIds, command \in CommandNames \cup {None},
       sound \in BOOLEAN, error \in errors :
        /\ Attached
        /\ uuids + events < MaxObjects
        /\ LET r == log_command_failure(pending, queue, now, events,
                                        interaction_id, command, sound, error)
           IN  /\ pending' = r.pending
               /\ queue' = r.queue
               /\ events' = events + Len(r.enq)
               /\ accepted' = accepted \cup Taken(r.queue, r.enq)
               /\ open' = [open EXCEPT ![interaction_id] = <<>>]
               /\ reaped' = [reaped EXCEPT ![interaction_id] = <<>>]
               /\ superseded' = [superseded EXCEPT ![interaction_id] = <<>>]
               /\ last' = Outcome(<<>>, r.log, r.raised)
        /\ UNCHANGED <<consumer, now, uuids, dispatchCount, dispatchLog, metrics, recorded>>

\* A failure of the kind the tests report: a user-facing error raised by the
\* command and wrapped by the framework.
LogCommandFailure == LogCommandFailureOf({WrappedUserError})

\* A failure with any of the errors of Errors.
LogAnyCommandFailure == LogCommandFailureOf(Errors)

\* A direct call of Telemetry._enqueue with an event built by the caller.
Enqueue ==
    \E f \in ForeignEvents :
        /\ Attached
        /\ uuids + events < MaxObjects
        /\ LET event == TelemetryEvent(events + 1, f.event_type, f.data)
               r == enqueue(queue, event)
           IN  /\ queue' = r.queue
               /\ events' = events + 1
               /\ accepted' = accepted \cup Taken(r.queue, <<event>>)
               /\ last' = Outcome(<<>>, r.log, FALSE)
        /\ UNCHANGED <<pending, consumer, now, uuids, dispatchCount, dispatchLog, open, reaped,
                       superseded, metrics, recorded>>

\* Telemetry.cog_load: start the consumer task.  Its before_loop hook waits for
\* the bot to be ready; the first tick comes once it is.
CogLoad ==
    /\ consumer = "stopped"
    /\ consumer' = "running"
    /\ last' = Quiet
    /\ UNCHANGED <<pending, queue, now, uuids, events, accepted, dispatchCount, dispatchLog,
                   open, reaped, superseded, metrics, recorded>>

\* Telemetry._consumer_task: one tick of the periodic loop.
ConsumerTask ==
    /\ consumer = "running"
    /\ LET r == process_pending_events(queue)
       IN  /\ queue' = r.queue
           /\ dispatchCount' = Counted(dispatchCount, r.dispatched)
           /\ dispatchLog' = dispatchLog \o Logged(r.dispatched)
           /\ last' = Outcome(Ids(r.dispatched), r.log, r.raised)
    /\ UNCHANGED <<pending, consumer, now, uuids, events, accepted, open, reaped,
                   superseded, metrics, recorded>>

\* An unload that empties the pending map as well as the queue.
CogUnloadClearingPending ==
    /\ consumer # "cancelled"
    /\ consumer' = "cancelled"
    /\ pending' = <<>>
    /\ LET r == drain_queue(queue)
       IN  /\ queue' = r.queue
           /\ dispatchCount' = Counted(dispatchCount, r.dispatched)
           /\ dispatchLog' = dispatchLog \o Logged(r.dispatched)
           /\ last' = Outcome(Ids(r.dispatched), r.log, r.raised)
    /\ UNCHANGED <<now, uuids, events, accepted, open, reaped,
                   superseded, metrics, recorded>>

\* Telemetry.cog_unload: cancel the consumer task, then drain the queue.
CogUnload ==
    /\ consumer # "cancelled"
    /\ consumer' = "cancelled"
    /\ LET r == drain_queue(queue)
       IN  /\ queue' = r.queue
           /\ dispatchCount' = Counted(dispatchCount, r.dispatched)
           /\ dispatchLog' = dispatchLog \o Logged(r.dispatched)
           /\ last' = Outcome(Ids(r.dispatched), r.log, r.raised)
    /\ UNCHANGED <<pending, now, uuids, events, accepted, open, reaped,
                   superseded, metrics, recorded>>

\* A direct call of Telemetry._drain_queue.
DrainQueue ==
    /\ LET r == drain_queue(queue)
       IN  /\ queue' = r.queue
           /\ dispatchCount' = Counted(dispatchCount, r.dispatched)
           /\ dispatchLog' = dispatchLog \o Logged(r.dispatched)
           /\ last' = Outcome(Ids(r.dispatched), r.log, r.raised)
    /\ UNCHANGED <<pending, consumer, now, uuids, events, accepted, open, reaped,
                   superseded, metrics, recorded>>

\* time.monotonic() advances between two calls of the handlers.
Advance ==
    /\ Attached
    /\ now + TimeStep <= MaxTime
    /\ now' = now + TimeStep
    /\ last' = Quiet
    /\ UNCHANGED <<pending, queue, consumer, uuids, events, accepted,
                   dispatchCount, dispatchLog, open, reaped, superseded, metrics, recorded>>

\* A call of Telemetry._record_interaction_metrics with a record.
RecordInteractionMetrics ==
    \E data \in InteractionRecords :
        /\ Len(recorded) < MaxRecords
        /\ metrics' = record_interaction(metrics, data)
        /\ recorded' = Append(recorded, [kind |-> "interaction", data |-> data])
        /\ last' = Quiet
        /\ UNCHANGED <<pending, queue, consumer, now, uuids, events, accepted,
                       dispatchCount, dispatchLog, open, reaped, superseded>>

\* A call of Telemetry._record_completion_metrics with a record.
RecordCompletionMetrics ==
    \E data \in CompletionRecords :
        /\ Len(recorded) < MaxRecords
        /\ metrics' = record_completion(metrics, data)
        /\ recorded' = Append(recorded, [kind |-> "completion", data |-> data])
        /\ last' = Quiet
        /\ UNCHANGED <<pending, queue, consumer, now, uuids, events, accepted,
                       dispatchCount, dispatchLog, open, reaped, superseded>>

\* A call of Telemetry.get_metrics by a reporting command.
GetMetrics ==
    /\ Len(recorded) < MaxRecords
    /\ LET r == get_metrics(metrics)
       IN  /\ metrics' = r.metrics
           /\ recorded' = Append(recorded, [kind |-> "snapshot", data |-> r.ret])
    /\ last' = Quiet
    /\ UNCHANGED <<pending, queue, consumer, now, uuids, events, accepted,
                   dispatchCount, dispatchLog, open, reaped, superseded>>

\* The event pipeline: producers, consumer and lifecycle, with every call made
\* at one reading of the clock.
Next ==
    \/ OnInteraction
    \/ OnAppCommandCompletion
    \/ LogCommandFailure
    \/ Enqueue
    \/ CogLoad
    \/ ConsumerTask
    \/ CogUnload
    \/ DrainQueue

Spec == Init /\ [][Next]_vars

\* The framework loads the cog it constructed, and once the bot is ready the
\* tasks.loop reschedules the consumer every _CONSUMER_INTERVAL_SECONDS.
FairSpec == Spec /\ WF_vars(CogLoad) /\ WF_vars(ConsumerTask)

\* The correlation tracker: the three entry points with the clock running.
TrackerNext ==
    \/ OnInteraction
    \/ OnAppCommandCompletion
    \/ LogCommandFailure
    \/ Advance

TrackerSpec == Init /\ [][TrackerNext]_vars

\* The failure path: command failures with every error of Errors, and the
\* consumer.
FailureNext ==
    \/ LogAnyCommandFailure
    \/ CogLoad
    \/ ConsumerTask

FailureSpec == Init /\ [][FailureNext]_vars

\* The capture of interactions of every kind, and the consumer.
CaptureNext ==
    \/ OnAnyInteraction
    \/ OnDataInteraction
    \/ CogLoad
    \/ ConsumerTask

CaptureSpec == Init /\ [][CaptureNext]_vars

\* The aggregator: records handed to it one after the other.
MetricsNext ==
    \/ RecordInteractionMetrics
    \/ RecordCompletionMetrics
    \/ GetMetrics

MetricsSpec == Init /\ [][MetricsNext]_vars

---------------------------------------------------------------------------
(* Properties of the bounded queue.                                        *)

\* C1: in every reachable state, whatever enqueues, consumer ticks and drains
\* were interleaved, the queue holds at most its capacity of events.
QueueNeverExceedsCapacity == Len(queue) <= QUEUE_MAX_SIZE

\* The queue is full again after a tick or a drain has dispatched an event.
QueueRefilledToCapacity ==
    /\ Len(queue) = QUEUE_MAX_SIZE
    /\ \E n \in DOMAIN dispatchCount : dispatchCount[n] = 1

\* C2: a call of enqueue on a queue holding exactly its capacity drops the new
\* event: the queue keeps its contents and order, exactly one warning is
\* logged and nothing is raised; below capacity the event is appended at the
\* tail and no warning is logged.
EnqueueDropsNewestWhenFull ==
    [][events' = events + 1 =>
        /\ ~last'.raised
        /\ Len(queue) = QUEUE_MAX_SIZE =>
              /\ queue' = queue
              /\ events' \notin accepted'
              /\ Len(last'.log) = 1
              /\ last'.log[1][1] = "warning"
              /\ last'.log[1][2] = "queue_full"
        /\ Len(queue) < QUEUE_MAX_SIZE =>
              /\ Len(queue') = Len(queue) + 1
              /\ SubSeq(queue', 1, Len(queue)) = queue
              /\ queue'[Len(queue')].seq = events'
              /\ events' \in accepted'
              /\ last'.log = <<>>]_vars

\* A completion event was just dropped by a full queue.
NewestDroppedAtCapacity ==
    /\ Len(queue) = QUEUE_MAX_SIZE
    /\ last.log = << LogLine("warning", "queue_full", "completion") >>
    /\ \A k \in DOMAIN queue : queue[k].seq < events

---------------------------------------------------------------------------
(* Properties of the correlation tracker.                                  *)

\* The fallback pair of _pop_pending at time t.
Fallback(t) == <<"unknown", t>>

\* C3: while the latest begin(i) is less than the staleness threshold old and
\* no end(i) followed it, end(i) returns exactly the correlation id and the
\* start time of that begin, whatever happened on other identifiers; both
\* end handlers put that id, and the time since that start, in their event.
EndReturnsWhatBeginRecorded ==
    \A i \in InteractionIds :
        (open[i] # <<>> /\ now - open[i][2] < STALE_THRESHOLD_SECONDS) =>
            /\ pop_pending(pending, i, now).ret = open[i]
            /\ \A command \in CommandNames :
                 LET r == on_app_command_completion(pending, queue, now, events,
                                                    i, command)
                     f == log_command_failure(pending, queue, now, events, i,
                                              command, TRUE, WrappedUserError)
                 IN  /\ r.ret = open[i]
                     /\ r.enq[1].data.correlation_id = open[i][1]
                     /\ r.enq[1].data.duration_ms = (now - open[i][2]) * 1000
                     /\ f.ret = open[i]
                     /\ f.enq[1].data.correlation_id = open[i][1]
                     /\ f.enq[1].data.duration_ms = (now - open[i][2]) * 1000

\* The queue holds the interaction event of a begin and the completion event
\* of its end, which came later, while another identifier is still pending.
EndMatchedItsBegin ==
    /\ pending # <<>>
    /\ \E j, k \in DOMAIN queue :
         /\ queue[j].event_type = "interaction"
         /\ queue[k].event_type = "completion"
         /\ queue[k].data.correlation_id = queue[j].data.correlation_id
         /\ queue[k].data.duration_ms > 0

\* C4: end(i) on a pending map without an entry for i returns the fallback
\* pair ("unknown", now), raises nothing and leaves the pending map as it
\* was; so do the two handlers that call it.
EndWithoutEntryFallsBack ==
    \A i \in InteractionIds :
        i \notin DOMAIN pending =>
            /\ pop_pending(pending, i, now) =
                 [ret |-> Fallback(now), pending |-> pending]
            /\ \A command \in CommandNames \cup {None}, sound \in BOOLEAN :
                 LET r == on_app_command_completion(pending, queue, now, events,
                                                    i, command)
                     f == log_command_failure(pending, queue, now, events, i,
                                              command, sound, WrappedUserError)
                 IN  /\ r.ret = Fallback(now) /\ f.ret = Fallback(now)
                     /\ r.pending = pending /\ f.pending = pending
                     /\ ~r.raised /\ ~f.raised

\* An end without an entry has put an "unknown" completion of duration zero in
\* the queue, at a time other than the origin of the clock.
UnknownEndEnqueued ==
    /\ now > 0
    /\ \E k \in DOMAIN queue :
         /\ queue[k].event_type = "completion"
         /\ queue[k].data.correlation_id = "unknown"
         /\ queue[k].data.duration_ms = 0

\* C5 as stated: once a begin, for whatever identifier, has found the entry of
\* i older than the threshold, end(i) returns the fallback pair.
EndAfterReapFallsBack ==
    \A i \in InteractionIds :
        reaped[i] # <<>> => pop_pending(pending, i, now).ret = Fallback(now)

\* C5: once a begin has found the entry of i older than the threshold, that
\* entry is out of the pending map and end(i) never returns its correlation
\* id; end(i) returns the fallback pair, unless the begin that reaped was
\* itself a begin(i), and then it returns the entry that begin recorded.
ReapedEntryIsUnreachable ==
    \A i \in InteractionIds :
        reaped[i] # <<>> =>
            LET ret == pop_pending(pending, i, now).ret
            IN  /\ i \in DOMAIN pending => pending[i] # reaped[i]
                /\ ret[1] # reaped[i][1]
                /\ IF open[i] = reaped[i]
                   THEN i \notin DOMAIN pending /\ ret = Fallback(now)
                   ELSE i \in DOMAIN pending /\ ret = open[i]

\* The begin of another identifier has reaped the entry of i, which has had no
\* begin since.
ReapedByAnotherBegin ==
    \E i \in InteractionIds :
        /\ reaped[i] # <<>>
        /\ open[i] = reaped[i]
        /\ i \notin DOMAIN pending
        /\ pending # <<>>

---------------------------------------------------------------------------
(* Properties of the consumer and of the shutdown drain.                   *)

\* How many times the event of identity n is in the queue q.
InQueue(q, n) == Cardinality({ k \in DOMAIN q : q[k].seq = n })

\* C6: an event that enqueue accepted is either still in the queue, once, or
\* was handed to the dispatch once, by a tick or by a drain and not by both;
\* cog_unload leaves the queue empty; and every accepted event is eventually
\* dispatched.
AcceptedDispatchedExactlyOnce ==
    /\ [](\A n \in accepted : InQueue(queue, n) + dispatchCount[n] = 1)
    /\ [][CogUnload => queue' = <<>>]_vars
    /\ \A n \in 1..MaxObjects : (n \in accepted) ~> (dispatchCount[n] = 1)

\* After the unload the queue is empty, one event having been dispatched by
\* an earlier tick and another by the drain of the unload.
TickThenUnloadDispatchedAll ==
    /\ consumer = "cancelled"
    /\ queue = <<>>
    /\ \E n, m \in accepted :
         /\ n # m
         /\ dispatchCount[n] = 1 /\ dispatchCount[m] = 1
         /\ last.dispatched = <<m>>

\* The "Drained %d" warnings of a log.
DrainedWarnings(log) == SelectSeq(log, LAMBDA line : line[2] = "drained")

\* C7: a drain of an empty queue logs no "Drained" warning, dispatches nothing
\* and changes nothing; a drain of a queue of N >= 1 events dispatches the N
\* events in queue order, leaves the queue empty and logs exactly one
\* "Drained" warning, with N as its count.
DrainWarnsOnceWithCount ==
    [][(DrainQueue \/ CogUnload) =>
        IF queue = <<>>
        THEN /\ last'.log = <<>>
             /\ last'.dispatched = <<>>
             /\ ~last'.raised
             /\ UNCHANGED <<pending, queue, now, uuids, events, accepted,
                            dispatchCount, dispatchLog, open, reaped, superseded, metrics,
                            recorded>>
        ELSE /\ last'.dispatched = Ids(queue)
             /\ queue' = <<>>
             /\ DrainedWarnings(last'.log) =
                  << LogLine("warning", "drained", ToString(Len(queue))) >>
             /\ last'.log[Len(last'.log)][2] = "drained"]_vars

\* A drain has just dispatched two events and logged "Drained 2".
DrainedTwoEvents ==
    /\ Len(last.dispatched) = 2
    /\ queue = <<>>
    /\ last.log # <<>>
    /\ last.log[Len(last.log)] = LogLine("warning", "drained", "2")

\* An interaction event without one of the fields _log_interaction reads.
Malformed(event) ==
    event.event_type = "interaction" /\ "timestamp" \notin DOMAIN event.data

\* C8: a tick or a drain of a queue in which some events make the logging
\* method raise still dequeues and dispatches every event of the queue, in
\* order; each exception is logged by the dispatch and none escapes, and the
\* consumer stays as it was.
DispatchFailureDoesNotStopLoop ==
    [][(ConsumerTask \/ DrainQueue \/ CogUnload) =>
        /\ ~last'.raised
        /\ last'.dispatched = Ids(queue)
        /\ queue' = <<>>
        /\ Len(AtLevel(last'.log, "error")) =
             Cardinality({ k \in DOMAIN queue : Malformed(queue[k]) })
        /\ ConsumerTask => consumer' = "running"]_vars

\* A tick or a drain has dispatched a malformed event, logged its exception,
\* and then dispatched and logged the event behind it.
LaterEventDispatchedAfterFailure ==
    /\ Len(last.dispatched) = 2
    /\ Len(last.log) >= 2
    /\ last.log[1] = LogLine("error", "dispatch", "interaction")
    /\ last.log[2] = LogLine("debug", "telemetry", "completion")

---------------------------------------------------------------------------
(* Properties of the entry points.                                         *)

\* C9: no exception escapes on_interaction, on_app_command_completion or
\* log_command_failure, whatever the queue and the pending map hold and
\* whether or not the extraction from the raw notification fails.
EntryPointsNeverRaise ==
    /\ ~last.raised
    /\ \A interaction \in RawInteractions :
         ~on_interaction(pending, queue, now, uuids, events, interaction).raised
    /\ \A i \in InteractionIds, command \in CommandNames \cup {None} :
         /\ ~on_app_command_completion(pending, queue, now, events, i,
                                       command).raised
         /\ \A sound \in BOOLEAN, error \in Errors :
              ~log_command_failure(pending, queue, now, events, i, command,
                                   sound, error).raised

\* An entry point has caught and logged a failure of the extraction, the
\* queue being full and the pending map not empty.
FailureCaughtWithFullQueue ==
    /\ Len(queue) = QUEUE_MAX_SIZE
    /\ pending # <<>>
    /\ Len(last.log) = 1
    /\ last.log[1][1] = "error"

\* The cause of a reported error: what the wrapper of the framework wraps,
\* one level down, or the error itself.
Cause(error) ==
    IF error[1] = "CommandInvokeError" THEN SubSeq(error, 2, Len(error)) ELSE error

\* C10: the completion event of log_command_failure has status "user_error"
\* if and only if the cause, one level below a CommandInvokeError, is a
\* UserFriendlyError, and "internal_error" otherwise; its error_type is the
\* type name of that cause.
FailureCategorizedByCause ==
    /\ \A error \in Errors, i \in InteractionIds,
          command \in CommandNames \cup {None} :
         LET r == log_command_failure(pending, queue, now, events, i, command,
                                      TRUE, error)
             data == r.enq[1].data
         IN  /\ data.status \in {"user_error", "internal_error"}
             /\ data.status = "user_error" <=>
                  "UserFriendlyError" \in Mro(Cause(error)[1])
             /\ data.error_type = Cause(error)[1]
    /\ \A k \in DOMAIN queue :
         /\ queue[k].data.status \in {"user_error", "internal_error"}
         /\ queue[k].data.status = "user_error" <=>
              queue[k].data.error_type = "UserFriendlyError"

\* The queue holds a user error whose type is UserFriendlyError and an
\* internal error whose type is that of a wrapper that was itself wrapped.
BothCategoriesEnqueued ==
    \E j, k \in DOMAIN queue :
        /\ queue[j].data.status = "user_error"
        /\ queue[j].data.error_type = "UserFriendlyError"
        /\ queue[k].data.status = "internal_error"
        /\ queue[k].data.error_type = "CommandInvokeError"

---------------------------------------------------------------------------
(* Properties of the aggregation.                                          *)

\* The count a counter map reports for a key.
CountOf(map, key) == IF key \in DOMAIN map THEN map[key] ELSE 0

\* How many events of the queue q are interaction events that
\* _log_interaction accepts.
LoggableInteractions(q) ==
    Cardinality({ k \in DOMAIN q :
                    q[k].event_type = "interaction" /\ ~Malformed(q[k]) })

\* C11 as stated: a consumer tick that dispatches interaction events of the
\* slash command "ping" by user 42 in guild 100 has aggregated them:
\* total_interactions, command_invocations["ping"] and guild_interactions[100]
\* grew by their number and 42 is among the unique users.
TickAggregatesInteractions ==
    [][(ConsumerTask /\ LoggableInteractions(queue) > 0) =>
        LET n == LoggableInteractions(queue)
        IN  /\ metrics'.total_interactions = metrics.total_interactions + n
            /\ CountOf(metrics'.command_invocations, "ping") =
                 CountOf(metrics.command_invocations, "ping") + n
            /\ 42 \in metrics'.unique_user_ids
            /\ CountOf(metrics'.guild_interactions, 100) =
                 CountOf(metrics.guild_interactions, 100) + n]_vars

\* The record that the latest call handed to the aggregator.
LatestRecord(history) == history[Len(history)]

\* A step in which a record of this kind was handed to the aggregator.
Recorded(kind) ==
    /\ Len(recorded') = Len(recorded) + 1
    /\ LatestRecord(recorded').kind = kind

\* C12: record_interaction adds 1 to total_interactions and to the count of
\* the record's type, and puts the user in the unique-user set, which a
\* repeated user does not grow; it adds 1 to the count of the command only
\* when a name is present and to the count of the guild only when the guild
\* id is not null; a DM creates no guild entry; nothing else changes.
RecordInteractionCounts ==
    [][Recorded("interaction") =>
        LET data == LatestRecord(recorded').data
        IN  /\ metrics'.total_interactions = metrics.total_interactions + 1
            /\ \A ty \in DOMAIN metrics'.interactions_by_type \cup {data.interaction_type} :
                 CountOf(metrics'.interactions_by_type, ty) =
                   CountOf(metrics.interactions_by_type, ty)
                     + (IF ty = data.interaction_type THEN 1 ELSE 0)
            /\ metrics'.unique_user_ids = metrics.unique_user_ids \cup {data.user_id}
            /\ data.user_id \in metrics.unique_user_ids =>
                 Cardinality(metrics'.unique_user_ids) =
                   Cardinality(metrics.unique_user_ids)
            /\ IF data.command_name # None
               THEN \A c \in DOMAIN metrics'.command_invocations \cup {data.command_name} :
                      CountOf(metrics'.command_invocations, c) =
                        CountOf(metrics.command_invocations, c)
                          + (IF c = data.command_name THEN 1 ELSE 0)
               ELSE metrics'.command_invocations = metrics.command_invocations
            /\ IF data.guild_id # 0
               THEN \A g \in DOMAIN metrics'.guild_interactions \cup {data.guild_id} :
                      CountOf(metrics'.guild_interactions, g) =
                        CountOf(metrics.guild_interactions, g)
                          + (IF g = data.guild_id THEN 1 ELSE 0)
               ELSE /\ metrics'.guild_interactions = metrics.guild_interactions
                    /\ 0 \notin DOMAIN metrics'.guild_interactions
            /\ metrics'.completions_by_status = metrics.completions_by_status
            /\ metrics'.command_latency = metrics.command_latency
            /\ metrics'.command_failures = metrics.command_failures
            /\ metrics'.error_types = metrics.error_types]_vars

\* Two interactions of one user were recorded, one in a guild and one in a
\* DM, one with a command name and one without.
RepeatedUserOneGuildOneDM ==
    /\ metrics.total_interactions = 2
    /\ Cardinality(metrics.unique_user_ids) = 1
    /\ DOMAIN metrics.guild_interactions = {100}
    /\ metrics.guild_interactions[100] = 1
    /\ DOMAIN metrics.command_invocations = {"ping"}
    /\ metrics.command_invocations["ping"] = 1

\* C13: record_completion adds 1 to the count of the record's status; it
\* updates the latency stats of the command only when duration_ms is present
\* (without one, no latency entry is created); it adds 1 to the failures of the
\* command under the status only when the status is not "success" (a success
\* creates no failure entry); it adds 1 to the count of the error type only
\* when one is present; nothing else changes.
RecordCompletionCounts ==
    [][Recorded("completion") =>
        LET data == LatestRecord(recorded').data
            c == data.command_name
        IN  /\ \A st \in DOMAIN metrics'.completions_by_status \cup {data.status} :
                 CountOf(metrics'.completions_by_status, st) =
                   CountOf(metrics.completions_by_status, st)
                     + (IF st = data.status THEN 1 ELSE 0)
            /\ IF "duration_ms" \in DOMAIN data
               THEN /\ c \in DOMAIN metrics'.command_latency
                    /\ metrics'.command_latency[c].count =
                         (IF c \in DOMAIN metrics.command_latency
                          THEN metrics.command_latency[c].count ELSE 0) + 1
                    /\ \A o \in DOMAIN metrics'.command_latency \ {c} :
                         /\ o \in DOMAIN metrics.command_latency
                         /\ metrics'.command_latency[o] = metrics.command_latency[o]
               ELSE metrics'.command_latency = metrics.command_latency
            /\ IF data.status # "success"
               THEN /\ c \in DOMAIN metrics'.command_failures
                    /\ \A o \in DOMAIN metrics'.command_failures,
                          st \in {"success", "user_error", "internal_error"} :
                         CountOf(metrics'.command_failures[o], st) =
                           (IF o \in DOMAIN metrics.command_failures
                            THEN CountOf(metrics.command_failures[o], st) ELSE 0)
                             + (IF o = c /\ st = data.status THEN 1 ELSE 0)
               ELSE metrics'.command_failures = metrics.command_failures
            /\ IF "error_type" \in DOMAIN data
               THEN \A e \in DOMAIN metrics'.error_types \cup {data.error_type} :
                      CountOf(metrics'.error_types, e) =
                        CountOf(metrics.error_types, e)
                          + (IF e = data.error_type THEN 1 ELSE 0)
               ELSE metrics'.error_types = metrics.error_types
            /\ metrics'.total_interactions = metrics.total_interactions
            /\ metrics'.interactions_by_type = metrics.interactions_by_type
            /\ metrics'.command_invocations = metrics.command_invocations
            /\ metrics'.unique_user_ids = metrics.unique_user_ids
            /\ metrics'.guild_interactions = metrics.guild_interactions]_vars

\* A success without a duration and a failure with a duration and an error
\* type were recorded for one command: one latency observation, one failure
\* entry, one error type.
SuccessUntimedFailureTimed ==
    /\ DOMAIN metrics.completions_by_status = {"success", "user_error"}
    /\ DOMAIN metrics.command_latency = {"ping"}
    /\ metrics.command_latency["ping"].count = 1
    /\ DOMAIN metrics.command_failures = {"ping"}
    /\ DOMAIN metrics.command_failures["ping"] = {"user_error"}
    /\ DOMAIN metrics.error_types = {"UserFriendlyError"}
    /\ metrics.error_types["UserFriendlyError"] = 1

\* The durations recorded for a command, in the order of their recording.
RECURSIVE DurationsOf(_, _)
DurationsOf(history, command) ==
    IF history = <<>> THEN <<>>
    ELSE LET r == Head(history)
             rest == DurationsOf(Tail(history), command)
         IN  IF /\ r.kind = "completion"
                /\ r.data.command_name = command
                /\ "duration_ms" \in DOMAIN r.data
             THEN <<r.data.duration_ms>> \o rest
             ELSE rest

RECURSIVE Sum(_)
Sum(ds) == IF ds = <<>> THEN 0 ELSE Head(ds) + Sum(Tail(ds))

\* The accumulator after the durations ds were recorded in turn.
RECURSIVE RecordAll(_)
RecordAll(ds) ==
    IF ds = <<>> THEN CommandLatencyStats
    ELSE record(RecordAll(SubSeq(ds, 1, Len(ds) - 1)), ds[Len(ds)])

\* The stats are those of the durations ds: their number, their least, their
\* greatest, and their sum over their number as the average.
StatsOf(stats, ds) ==
    /\ stats.count = Len(ds)
    /\ \E k \in DOMAIN ds : stats.min_ms = ds[k]
    /\ \A k \in DOMAIN ds : stats.min_ms <= ds[k]
    /\ \E k \in DOMAIN ds : stats.max_ms = ds[k]
    /\ \A k \in DOMAIN ds : stats.max_ms >= ds[k]
    /\ avg_ms(stats)[1] * Len(ds) = Sum(ds) * avg_ms(stats)[2]

\* C14: a fresh accumulator has count 0, min_ms +infinity, max_ms 0 and
\* avg_ms 0; after the durations d1..dn of a command were recorded, in
\* whatever order, its count is n, its min_ms and max_ms are the least and
\* the greatest of them and its avg_ms is their sum over n (20 for 10 and 30).
LatencyStatsSummarize ==
    /\ CommandLatencyStats.count = 0
    /\ \A d \in Durations : CommandLatencyStats.min_ms > d
    /\ CommandLatencyStats.max_ms = 0
    /\ avg_ms(CommandLatencyStats)[1] = 0
    /\ \A c \in {"ping", "help"} :
         LET ds == DurationsOf(recorded, c)
         IN  IF ds = <<>>
             THEN c \notin DOMAIN metrics.command_latency
             ELSE StatsOf(metrics.command_latency[c], ds)
    /\ \A n \in 1..(MaxRecords + 1) :
         \A ds \in [1..n -> Durations] : StatsOf(RecordAll(ds), ds)
    /\ LET stats == RecordAll(<<10, 30>>)
       IN  /\ stats.count = 2 /\ stats.min_ms = 10 /\ stats.max_ms = 30
           /\ avg_ms(stats)[1] = 20 * avg_ms(stats)[2]

\* 30 and then 10 were recorded for "ping": count 2, min 10, max 30, avg 20.
ThirtyThenTenRecorded ==
    /\ DurationsOf(recorded, "ping") = <<30, 10>>
    /\ metrics.command_latency["ping"].count = 2
    /\ metrics.command_latency["ping"].min_ms = 10
    /\ metrics.command_latency["ping"].max_ms = 30
    /\ avg_ms(metrics.command_latency["ping"])[1] =
         20 * avg_ms(metrics.command_latency["ping"])[2]

---------------------------------------------------------------------------
(* Properties of the shutdown, the dispatch and the tick.                  *)

\* The warnings of a log that report neither a drain nor a dispatch nor a
\* full queue.
OtherWarnings(log) ==
    SelectSeq(log, LAMBDA line :
        line[1] = "warning"
          /\ line[2] \notin {"drained", "unknown_type", "queue_full"})

\* C15 as stated: cog_unload leaves the pending map empty and logs one
\* warning for each entry that was pending.
UnloadDrainsPending ==
    [][CogUnload =>
        /\ pending' = <<>>
        /\ Len(OtherWarnings(last'.log)) = Cardinality(DOMAIN pending)]_vars

\* An event whose kind no branch of _dispatch_event handles.
UnknownKind(event) == event.event_type \notin {"interaction", "completion"}

\* The lines that the dispatches of a tick or a drain logged: its log without
\* the closing "Drained" warning.
DispatchLines(log) == SelectSeq(log, LAMBDA line : line[2] # "drained")

\* C16: the dispatch of an event of unknown kind logs exactly one warning and
\* nothing else: no interaction or completion line, no exception; the metrics
\* stay as they are, nothing escapes, and the tick or drain dispatches the
\* events behind it.
UnknownKindOnlyWarns ==
    /\ [][(ConsumerTask \/ DrainQueue \/ CogUnload) =>
           LET lines == DispatchLines(last'.log)
           IN  /\ Len(lines) = Len(queue)
               /\ \A k \in DOMAIN queue :
                    UnknownKind(queue[k]) <=>
                      lines[k] = LogLine("warning", "unknown_type",
                                         queue[k].event_type)
               /\ metrics' = metrics
               /\ ~last'.raised
               /\ last'.dispatched = Ids(queue)
               /\ queue' = <<>>]_vars
    /\ [](\A f \in ForeignEvents :
            UnknownKind(f) =>
              dispatch_event(TelemetryEvent(1, f.event_type, f.data)) =
                [log |-> << LogLine("warning", "unknown_type", f.event_type) >>,
                 raised |-> FALSE])

\* A tick or a drain has warned of an event of unknown kind and then logged
\* the completion event behind it.
UnknownKindThenNextEvent ==
    /\ Len(last.dispatched) = 2
    /\ Len(last.log) >= 2
    /\ last.log[1] = LogLine("warning", "unknown_type", "bogus_type")
    /\ last.log[2] = LogLine("debug", "telemetry", "completion")

\* C17: a tick dequeues until the queue is empty or it has dispatched
\* capacity events, in the order of the queue; the queue never holding more
\* than capacity, a tick leaves it empty.
TickDrainsUpToCapacityInOrder ==
    [][ConsumerTask =>
        /\ last'.dispatched = Ids(queue)
        /\ Len(last'.dispatched) <= QUEUE_MAX_SIZE
        /\ queue' = <<>>
        /\ LET longer == queue \o queue
               r == process_pending_events(longer)
           IN  /\ Len(r.dispatched) = Min(Len(longer), QUEUE_MAX_SIZE)
               /\ r.dispatched \o r.queue = longer
               /\ r.queue # <<>> => Len(r.dispatched) = QUEUE_MAX_SIZE]_vars

\* A tick has just dispatched a full queue.
TickEmptiedFullQueue ==
    /\ consumer = "running"
    /\ queue = <<>>
    /\ Len(last.dispatched) = QUEUE_MAX_SIZE
    /\ DrainedWarnings(last.log) = <<>>

\* The log.exception lines of the entry points.
CaptureErrors(log) ==
    SelectSeq(log, LAMBDA line :
        line[1] = "error"
          /\ line[2] \in {"capture_interaction", "capture_completion",
                          "capture_failure"})

\* C18: an entry point in which the normalization of the raw notification
\* fails produces no event: no TelemetryEvent reaches the queue, which is
\* left exactly as it was, and the call ends there.
FailedCaptureProducesNoEvent ==
    [][CaptureErrors(last'.log) # <<>> =>
        /\ queue' = queue
        /\ accepted' = accepted
        /\ events' = events
        /\ Len(last'.log) = 1]_vars

\* on_interaction has caught a failed extraction while the queue had room.
FailedCaptureWithRoomInQueue ==
    /\ last.log = << LogLine("error", "capture_interaction", "Exception") >>
    /\ queue # <<>>
    /\ Len(queue) < QUEUE_MAX_SIZE

---------------------------------------------------------------------------
(* Further properties of the correlation tracker.                          *)

\* C19 as stated: after a begin(i) that found the entry of an earlier begin(i)
\* still open, the next end(i) returns the pair of the later begin and the
\* end(i) after it returns the fallback.
DuplicateBeginLastWins ==
    \A i \in InteractionIds :
        superseded[i] # <<>> =>
            LET first == pop_pending(pending, i, now)
                second == pop_pending(first.pending, i, now)
            IN  first.ret = open[i] /\ second.ret = Fallback(now)

\* C19: the pending map holds at most one entry per identifier, that of the
\* latest begin; after a begin(i) that found the entry of an earlier begin(i)
\* still open, the next end(i) returns the pair of the later begin, never
\* that of the earlier one, unless a begin has since found that pair older
\* than the threshold and reaped it, and then it returns the fallback; the
\* end(i) after it returns the fallback.
DuplicateBeginLastWinsUntilReaped ==
    /\ DOMAIN pending \subseteq InteractionIds
    /\ \A i \in DOMAIN pending : pending[i] = open[i]
    /\ \A i \in InteractionIds :
        superseded[i] # <<>> =>
            LET first == pop_pending(pending, i, now)
                second == pop_pending(first.pending, i, now)
            IN  /\ first.ret[1] # superseded[i][1]
                /\ IF reaped[i] = open[i]
                   THEN first.ret = Fallback(now)
                   ELSE first.ret = open[i]
                /\ second.ret = Fallback(now)

\* A second begin(i) has replaced the entry of a first one at a later time.
SecondBeginReplacedFirst ==
    \E i \in DOMAIN pending :
        /\ superseded[i] # <<>>
        /\ pending[i] = open[i]
        /\ pending[i][1] # superseded[i][1]
        /\ pending[i][2] > superseded[i][2]
        /\ reaped[i] = <<>>

\* C20: right after every begin the pending map holds no entry older than the
\* staleness threshold and holds the entry that begin created; each of its
\* entries comes from a begin of its own made within the threshold, so the
\* map is no larger than the number of begins of the last 60 s.
BeginSweepsThenInserts ==
    [][uuids' = uuids + 1 =>
        /\ \A i \in DOMAIN pending' :
             /\ now' - pending'[i][2] <= STALE_THRESHOLD_SECONDS
             /\ pending'[i][2] <= now'
        /\ \E i \in DOMAIN pending' :
             /\ open'[i] # open[i]
             /\ pending'[i] = open'[i]
             /\ pending'[i][2] = now'
        /\ \A i, j \in DOMAIN pending' :
             i # j => pending'[i][1] # pending'[j][1]
        /\ Cardinality(DOMAIN pending') <= uuids']_vars

\* A begin has just swept a stale entry away and left its own entry alone in
\* the pending map.
BeginLeftOnlyItsEntry ==
    /\ now > STALE_THRESHOLD_SECONDS
    /\ \E i \in InteractionIds : reaped[i] # <<>> /\ reaped[i][2] = 0
    /\ Cardinality(DOMAIN pending) = 1
    /\ \A j \in DOMAIN pending : pending[j] = open[j] /\ pending[j][2] = now

---------------------------------------------------------------------------
(* Properties of the normalization.                                        *)

\* The categories the specification lists for an interaction.
Categories ==
    {"slash_command", "button", "dropdown", "modal", "autocomplete", "unknown"}

\* The interaction events of a queue.
InteractionEvents(q) ==
    { k \in DOMAIN q : q[k].event_type = "interaction"
                         /\ "interaction_type" \in DOMAIN q[k].data }

\* C21 as stated: the category recorded for any interaction is one of
\* slash_command, button, dropdown, modal, autocomplete and unknown.
CategoryInClosedSet ==
    \A k \in InteractionEvents(queue) :
        queue[k].data.interaction_type \in Categories

\* C21: the category recorded for an interaction is one of slash_command,
\* button, dropdown, modal, autocomplete, unknown and component: a component
\* interaction is button with subtype code 2, dropdown with subtype code 3
\* and component with any other subtype or none; an application command is
\* slash_command, a modal submit modal, an autocomplete autocomplete, and
\* every other declared type unknown.
CategoryInClosedSetOrComponent ==
    /\ \A k \in InteractionEvents(queue) :
         queue[k].data.interaction_type \in Categories \cup {"component"}
    /\ \A interaction \in AnyInteractions :
         LET category == get_interaction_type(interaction)
             data == on_interaction(pending, queue, now, uuids, events,
                                    interaction).enq
         IN  /\ category \in Categories \cup {"component"}
             /\ data # <<>> => data[1].data.interaction_type = category
             /\ interaction.type = "component" =>
                  /\ interaction.component_type = 2 => category = "button"
                  /\ interaction.component_type = 3 => category = "dropdown"
                  /\ interaction.component_type \notin {2, 3} =>
                       category = "component"
             /\ interaction.type = "application_command" =>
                  category = "slash_command"
             /\ interaction.type = "modal_submit" => category = "modal"
             /\ interaction.type = "autocomplete" => category = "autocomplete"
             /\ interaction.type = "ping" => category = "unknown"

\* The queue holds the event of a button and that of a component of another
\* kind.
ButtonAndOtherComponentEnqueued ==
    \E j, k \in InteractionEvents(queue) :
        /\ queue[j].data.interaction_type = "button"
        /\ queue[k].data.interaction_type = "component"

\* The leaves of an option list: for each option that carries a value, has a
\* name and no nested list, and hangs below named options only, the names on
\* its path from the root and its value.
RECURSIVE Leaves(_)
Leaves(option_list) ==
    UNION { LET opt == option_list[k]
            IN  IF "name" \notin DOMAIN opt \/ opt.name = ""
                THEN {}
                ELSE IF "options" \in DOMAIN opt
                THEN { [path |-> << opt.name >> \o l.path, value |-> l.value] :
                         l \in Leaves(opt.options) }
                ELSE IF "value" \in DOMAIN opt
                THEN { [path |-> << opt.name >>, value |-> opt.value] }
                ELSE {} :
            k \in DOMAIN option_list }

\* The names of a path joined with ".".
RECURSIVE Dotted(_)
Dotted(path) ==
    IF Len(path) = 1 THEN path[1] ELSE path[1] \o "." \o Dotted(Tail(path))

\* No user, channel or role object is left in a value, however deep.
RECURSIVE NoObject(_)
NoObject(value) ==
    /\ value.cls \notin UserClasses \cup ChannelClasses \cup RoleClasses
    /\ value.cls \in {"list", "dict"} =>
         \A k \in DOMAIN value.items : NoObject(value.items[k])

---------------------------------------------------------------------------
(* Further properties of the aggregation.                                  *)

\* Every key of the counter map a is a key of b, with a count no smaller.
CounterNoLess(a, b) == \A k \in DOMAIN a : k \in DOMAIN b /\ a[k] <= b[k]

\* No metric of n is below what it is in m.
NoLess(m, n) ==
    /\ m.total_interactions <= n.total_interactions
    /\ CounterNoLess(m.interactions_by_type, n.interactions_by_type)
    /\ CounterNoLess(m.command_invocations, n.command_invocations)
    /\ m.unique_user_ids \subseteq n.unique_user_ids
    /\ CounterNoLess(m.guild_interactions, n.guild_interactions)
    /\ CounterNoLess(m.completions_by_status, n.completions_by_status)
    /\ \A c \in DOMAIN m.command_latency :
         /\ c \in DOMAIN n.command_latency
         /\ m.command_latency[c].count <= n.command_latency[c].count
         /\ m.command_latency[c].sum_ms <= n.command_latency[c].sum_ms
    /\ \A c \in DOMAIN m.command_failures :
         /\ c \in DOMAIN n.command_failures
         /\ CounterNoLess(m.command_failures[c], n.command_failures[c])
    /\ CounterNoLess(m.error_types, n.error_types)

\* C22: over any sequence of record_interaction, record_completion and
\* snapshot calls no metric decreases: no counter is decremented, no key
\* leaves a count map, no user leaves the unique-user set, and the count and
\* the sum of each latency accumulator never decrease.
MetricsNeverDecrease == [][NoLess(metrics, metrics')]_vars

\* A snapshot taken after an interaction was recorded returned the counters
\* and left them as they were.
SnapshotAfterRecordKeptCounters ==
    /\ Len(recorded) = 2
    /\ recorded[1].kind = "interaction"
    /\ recorded[2].kind = "snapshot"
    /\ recorded[2].data = metrics
    /\ metrics.total_interactions = 1

---------------------------------------------------------------------------
(* Frame properties of the producers and of the consumer.                  *)

\* A step of one of the three entry points.
Producer == OnInteraction \/ OnAppCommandCompletion \/ LogCommandFailure

\* A step in which dequeued events are dispatched: a tick or a drain.
Dispatching == ConsumerTask \/ CogUnload \/ DrainQueue

\* C23: on_interaction, on_app_command_completion and log_command_failure
\* leave every aggregate metric unchanged, and with it the consumer and the
\* record of what was dispatched: of the state of the cog they touch only the
\* queue and the pending map; a step that changes a metric is a tick or a
\* drain dispatching dequeued events.
ProducersLeaveMetricsAlone ==
    [][/\ Producer =>
            /\ metrics' = metrics
            /\ consumer' = consumer
            /\ dispatchCount' = dispatchCount
       /\ metrics' # metrics => Dispatching]_vars

\* A begin and a failed end have put their events in the queue and another
\* begin is pending; every metric is where the construction left it.
ProducersActedMetricsUntouched ==
    /\ Len(queue) = 2
    /\ queue[1].event_type = "interaction"
    /\ queue[2].event_type = "completion"
    /\ queue[2].data.status = "user_error"
    /\ Logged(queue)[2].correlation_id = Logged(queue)[1].correlation_id
    /\ pending # <<>>
    /\ metrics = TelemetryMetrics

\* An interaction event and a completion event of one begin, each given by
\* its kind and its correlation id: they carry the same id, which is not the
\* fallback.
Correlated(interaction_event, completion_event) ==
    /\ interaction_event.event_type = "interaction"
    /\ completion_event.event_type = "completion"
    /\ interaction_event.correlation_id = completion_event.correlation_id
    /\ completion_event.correlation_id \notin {"unknown", None}

\* C25: when the interaction event and the completion event of one begin
\* were both accepted, the interaction event is dispatched first: in the
\* queue it is ahead of the completion event, in the order of dispatch it
\* comes before it, and it is never still waiting in the queue once the
\* completion event was dispatched.
CorrelatedDispatchedInOrder ==
    LET waiting == Logged(queue)
    IN  /\ \A j, k \in DOMAIN waiting :
             Correlated(waiting[j], waiting[k]) => j < k
        /\ \A j, k \in DOMAIN dispatchLog :
             Correlated(dispatchLog[j], dispatchLog[k]) => j < k
        /\ \A j \in DOMAIN waiting, k \in DOMAIN dispatchLog :
             ~Correlated(waiting[j], dispatchLog[k])

\* The completion event of a begin was dispatched alone by the latest tick or
\* drain, its interaction event by an earlier one.
CompletionDispatchedAfterItsInteraction ==
    /\ Len(last.dispatched) = 1
    /\ Len(dispatchLog) >= 2
    /\ dispatchLog[Len(dispatchLog)].event_type = "completion"
    /\ dispatchLog[Len(dispatchLog)].correlation_id # "unknown"
    /\ \E j \in 1..(Len(dispatchLog) - 1) :
         /\ dispatchLog[j].event_type = "interaction"
         /\ dispatchLog[j].correlation_id = dispatchLog[Len(dispatchLog)].correlation_id

---------------------------------------------------------------------------
(* Properties of the ends.                                                 *)

\* The two end handlers, called for interaction i with a command on which
\* nothing raises: "completion" is on_app_command_completion, "failure" is
\* log_command_failure.
End(handler, p, q, t, nevent, i) ==
    IF handler = "completion"
    THEN on_app_command_completion(p, q, t, nevent, i, "ping")
    ELSE log_command_failure(p, q, t, nevent, i, "ping", TRUE, WrappedUserError)

EndHandlers == {"completion", "failure"}

\* The correlation id of the event a call handed to _enqueue.
EnqueuedCorrelation(r) == r.enq[1].data.correlation_id

\* The completion events of a queue that carry the correlation id c.
CompletionsOf(q, c) ==
    { k \in DOMAIN q : q[k].event_type = "completion"
                         /\ q[k].data.correlation_id = c }

\* C26 as stated: after a begin(i), of two ends for i the first hands on a
\* completion event with the correlation id of the begin and the second one
\* with "unknown".
FirstEndCarriesBeginsId ==
    \A i \in InteractionIds, h1, h2 \in EndHandlers :
        open[i] # <<>> =>
            LET first == End(h1, pending, queue, now, events, i)
                second == End(h2, first.pending, first.queue, now, events + 1, i)
            IN  /\ EnqueuedCorrelation(first) = open[i][1]
                /\ EnqueuedCorrelation(second) = "unknown"

\* C26: an entry is consumed by the first end: after a begin(i), of two ends
\* for i, whichever handlers they are, the first hands on a completion event
\* with the correlation id of the begin, unless a begin has reaped the entry
\* in the meantime, and then with "unknown"; the second hands on one with
\* "unknown"; the first end consumes the entry even when it produces no
\* event; and of the completion events in the queue at most one carries a
\* given correlation id other than "unknown".
EntryConsumedByFirstEnd ==
    /\ \A i \in InteractionIds, h1, h2 \in EndHandlers :
         open[i] # <<>> =>
            LET first == End(h1, pending, queue, now, events, i)
                second == End(h2, first.pending, first.queue, now, events + 1, i)
            IN  /\ EnqueuedCorrelation(first) =
                     (IF reaped[i] = open[i] THEN "unknown" ELSE open[i][1])
                /\ i \notin DOMAIN first.pending
                /\ \A j \in DOMAIN first.pending :
                     first.pending[j][1] # open[i][1]
                /\ EnqueuedCorrelation(second) = "unknown"
                /\ second.pending = first.pending
    /\ \A i \in InteractionIds :
         LET lost == on_app_command_completion(pending, queue, now, events, i, None)
             after == End("failure", lost.pending, lost.queue, now, events, i)
         IN  /\ lost.enq = <<>>
             /\ i \notin DOMAIN lost.pending
             /\ EnqueuedCorrelation(after) = "unknown"
    /\ \A n \in 1..uuids : Cardinality(CompletionsOf(queue, Uuid4Hex(n))) <= 1
    /\ \A i \in DOMAIN pending :
         /\ \E n \in 1..uuids : pending[i][1] = Uuid4Hex(n)
         /\ CompletionsOf(queue, pending[i][1]) = {}

\* A success and then a failure were reported for one begin: the queue holds
\* the completion event of the first with the correlation id of the begin
\* and that of the second with "unknown".
SecondEndEnqueuedUnknown ==
    /\ Len(queue) = 2
    /\ queue[1].event_type = "completion"
    /\ queue[1].data.status = "success"
    /\ queue[1].data.correlation_id # "unknown"
    /\ queue[2].event_type = "completion"
    /\ queue[2].data.status = "user_error"
    /\ queue[2].data.correlation_id = "unknown"
    /\ uuids = 1

\* The identifiers whose entry is in the pending map before a step and is
\* gone, or replaced, after it.
Left == { i \in DOMAIN pending : i \notin DOMAIN pending' \/ pending'[i] # pending[i] }

\* C27: an entry leaves the pending map only in a begin, which reaps it as
\* stale or replaces it, or in an end for its identifier, which removes it
\* alone; an end does not reap: an entry older than the threshold that is
\* still in the map is returned by end(i) with its correlation id and its
\* start time, the other stale entries staying where they are; and while no
\* begin is called a stale entry stays in the map, however far the clock
\* advances.
EntriesLeaveByBeginOrEnd ==
    /\ [][Left # {} =>
            \/ /\ uuids' = uuids + 1
               /\ \A i \in Left :
                    Stale(pending[i], now) \/ (i \in DOMAIN pending' /\ pending'[i][2] = now)
            \/ /\ OnAppCommandCompletion \/ LogCommandFailure
               /\ Cardinality(Left) = 1
               /\ \A i \in Left : i \notin DOMAIN pending' /\ open'[i] = <<>>]_vars
    /\ [][Advance => pending' = pending]_vars
    /\ [](\A i \in DOMAIN pending, h \in EndHandlers :
            Stale(pending[i], now) =>
               LET r == End(h, pending, queue, now, events, i)
               IN  /\ pop_pending(pending, i, now).ret = pending[i]
                   /\ r.ret = pending[i]
                   /\ EnqueuedCorrelation(r) = pending[i][1]
                   /\ r.enq[1].data.duration_ms = (now - pending[i][2]) * 1000
                   /\ r.pending = Restrict(pending, DOMAIN pending \ {i}))

\* An end has returned an entry older than the threshold, its event carrying
\* the correlation id of the begin and a duration above 60 s, while another
\* stale entry is still in the pending map.
StaleEntryReturnedByEnd ==
    /\ \E k \in DOMAIN queue :
         /\ queue[k].event_type = "completion"
         /\ queue[k].data.correlation_id # "unknown"
         /\ queue[k].data.duration_ms > STALE_THRESHOLD_SECONDS * 1000
    /\ \E i \in DOMAIN pending : Stale(pending[i], now)

---------------------------------------------------------------------------
(* Frame properties of the pending map.                                    *)

\* C28: a consumer tick, a drain and the unload leave the pending map as it
\* is, whatever they dispatch: an event that makes the logging method raise
\* and an event of unknown kind included; so does the start of the consumer;
\* a step that changes the pending map is a step of on_interaction,
\* on_app_command_completion or log_command_failure.
ConsumerLeavesPendingAlone ==
    [][/\ (Dispatching \/ CogLoad) => pending' = pending
       /\ pending' # pending => Producer]_vars

\* With an entry pending, a tick or a drain has dispatched an event that made
\* the logging method raise and then an event of unknown kind.
RaisingAndUnknownDispatchedWhilePending ==
    /\ pending # <<>>
    /\ Len(last.dispatched) = 2
    /\ last.log[1] = LogLine("error", "dispatch", "interaction")
    /\ last.log[2] = LogLine("warning", "unknown_type", "bogus_type")

\* The events of a batch that carry the correlation id c, by kind.
Carrying(dispatched, kind, c) ==
    { k \in DOMAIN dispatched :
        /\ Logged(dispatched)[k].event_type = kind
        /\ Logged(dispatched)[k].correlation_id = c }

\* C29: a call whose event is not enqueued keeps its change of the pending
\* map.  A begin whose event a full queue drops, or whose extraction fails,
\* leaves the queue as it was and its new entry in the pending map; an end
\* whose event a full queue drops has removed its entry all the same.  So
\* after such a begin, a tick and an end, a drain dispatches a completion
\* event with the correlation id of the begin, for which no interaction
\* event was dispatched.
DropKeepsPendingChange ==
    /\ \A interaction \in RawInteractions :
         (Len(queue) = QUEUE_MAX_SIZE \/ ~interaction.sound) =>
            LET r == on_interaction(pending, queue, now, uuids, events, interaction)
                entry == << Uuid4Hex(uuids + 1), now >>
                tick == process_pending_events(r.queue)
            IN  /\ r.queue = queue
                /\ ~r.raised
                /\ r.log # <<>>
                /\ interaction.id \in DOMAIN r.pending
                /\ r.pending[interaction.id] = entry
                /\ \A h \in EndHandlers :
                     LET e == End(h, r.pending, tick.queue, now,
                                  events + Len(r.enq), interaction.id)
                         drained == drain_queue(e.queue)
                     IN  /\ EnqueuedCorrelation(e) = entry[1]
                         /\ Carrying(drained.dispatched, "completion", entry[1]) # {}
                         /\ Carrying(drained.dispatched, "interaction", entry[1]) = {}
                         /\ Carrying(tick.dispatched, "interaction", entry[1]) = {}
                         /\ \A k \in DOMAIN dispatchLog :
                              dispatchLog[k].correlation_id # entry[1]
    /\ \A i \in DOMAIN pending, h \in EndHandlers :
         Len(queue) = QUEUE_MAX_SIZE =>
            LET e == End(h, pending, queue, now, events, i)
            IN  /\ e.queue = queue
                /\ e.log = << LogLine("warning", "queue_full", "completion") >>
                /\ e.ret = pending[i]
                /\ i \notin DOMAIN e.pending

\* A tick or a drain has dispatched a completion event with the correlation
\* id of a begin, and no interaction event with that id was dispatched or is
\* in the queue.
CompletionDispatchedWithoutInteraction ==
    \E k \in DOMAIN dispatchLog :
        /\ dispatchLog[k].event_type = "completion"
        /\ dispatchLog[k].correlation_id # "unknown"
        /\ \A j \in DOMAIN dispatchLog :
             j # k => dispatchLog[j].correlation_id # dispatchLog[k].correlation_id
        /\ \A j \in DOMAIN queue :
             Logged(queue)[j].correlation_id # dispatchLog[k].correlation_id

---------------------------------------------------------------------------
(* Consistency of the metrics.                                             *)

\* The sum of the counts of a counter map.
RECURSIVE SumOfCounts(_)
SumOfCounts(counter) ==
    IF DOMAIN counter = {} THEN 0
    ELSE LET key == CHOOSE k \in DOMAIN counter : TRUE
         IN  counter[key] + SumOfCounts(Restrict(counter, DOMAIN counter \ {key}))

\* The number of latency observations, over all commands.
LatencyCount(m) ==
    SumOfCounts([c \in DOMAIN m.command_latency |-> m.command_latency[c].count])

\* The number of failures, over all commands and statuses.
FailureCount(m) ==
    SumOfCounts([c \in DOMAIN m.command_failures |->
                    SumOfCounts(m.command_failures[c])])

\* C30: after any sequence of record_interaction and record_completion
\* calls, total_interactions is the sum of the counts by type, the sum of the
\* command invocations and the sum of the guild counts are at most
\* total_interactions each, and the latency observations and the failures,
\* summed over the commands, are at most the sum of the counts by status
\* each.
MetricsConsistent ==
    /\ metrics.total_interactions = SumOfCounts(metrics.interactions_by_type)
    /\ SumOfCounts(metrics.command_invocations) <= metrics.total_interactions
    /\ SumOfCounts(metrics.guild_interactions) <= metrics.total_interactions
    /\ LatencyCount(metrics) <= SumOfCounts(metrics.completions_by_status)
    /\ FailureCount(metrics) <= SumOfCounts(metrics.completions_by_status)

\* An interaction without a command name, in a DM, and a failure without a
\* duration were recorded: the sums by command, by guild and of the latency
\* observations are below the totals, the failures equal to theirs.
TotalsAboveTheirParts ==
    /\ metrics.total_interactions = 1
    /\ SumOfCounts(metrics.interactions_by_type) = 1
    /\ SumOfCounts(metrics.command_invocations) = 0
    /\ SumOfCounts(metrics.guild_interactions) = 0
    /\ SumOfCounts(metrics.completions_by_status) = 1
    /\ LatencyCount(metrics) = 0
    /\ FailureCount(metrics) = 1

=============================================================================
